---- MODULE Spec2Model ----
(***************************************************************************)
(* Model of the agent handoff control loop of the multi-agent              *)
(* orchestration system: the tool registry and its dispatch                *)
(* (BaseAgent._invoke_function), the handoff protocol (HANDOFF_TEMPLATE,   *)
(* HANDOFF_PATTERN, create_handoff_function), one agent turn               *)
(* (BaseAgent.run) and the three conversation loops (run_agent_loop,       *)
(* run_agent_workflow_programmatic, the bridge's run_agent_workflow).      *)
(*                                                                         *)
(* Text is modelled as a sequence of tokens whose concatenation is the     *)
(* text.  Three tokens are special: TR (the literal "Transferred to: "),   *)
(* DOT (".") and NL (a line break).  No other token contains a '.', a      *)
(* line break or a part of the literal, so the regular expression search   *)
(* can be computed token by token.                                         *)
(***************************************************************************)
EXTENDS Integers, Sequences, FiniteSets, TLC

VARIABLES
    \* ---- the dispatch harness (SpecDispatch) --------------------------
    d_agent,      \* name of the agent whose registry is used
    d_name,       \* function_name of the tool-call request
    d_args,       \* arguments blob of the tool-call request
    d_env,        \* what the capability's body would do if it were called
    d_out,        \* outcome of _invoke_function, or NoOutcome before the call
    \* ---- the single-turn harness (SpecRun) -----------------------------
    r_agent,      \* name of the agent whose run is called
    r_messages,   \* the list handed to run
    r_response,   \* the oracle's response
    r_out,        \* outcome of run, or NoOutcome before the call
    \* ---- the loops (Spec) ----------------------------------------------
    mode,                \* "interactive" | "programmatic" | "bridge"
    agents,              \* the agents argument / agents_dict: its keys, in order
    starting_agent_name, \* the starting_agent_name argument ("" for None)
    max_iterations,      \* the max_iterations argument
    pc,                  \* position of the interactive / programmatic loop
    current_agent_name,  \* the cursor
    messages,            \* the conversation buffer
    iterations,          \* the iteration counter
    stop,                \* why the loop ended
    printed,             \* the reports printed by the loop, in order
    last,                \* the last loop step: its kind, the turn's outcome
    n_oracle,            \* number of oracle calls made so far
    \* ---- the bridge (mode = "bridge") ----------------------------------
    workflow_status,
    workflow_running,
    current_conversation,
    wf,                  \* per background task: locals of run_agent_workflow
    \* ---- re.search(HANDOFF_PATTERN, result) on one text ------------------
    h_text,              \* the text searched
    h_out,               \* the match found, once searched
    \* ---- create_handoff_function and the capabilities it returned --------
    k_target,            \* the target_agent_name argument
    k_made,              \* the function objects returned so far
    k_out,               \* the last call of one of them: its outcome
    \* ---- the task tools and .agent_workspace/_active_tasks.json ----------
    task_file,           \* whether the file exists, and its text
    task_out,            \* the last call: its arguments and what it returned
    writers,             \* two concurrent update_task_status calls, step by step
    \* ---- the bridge's task store ----------------------------------------
    tasks_store,         \* the list GET /tasks falls back to
    tasks_extracted,     \* per workflow: its loop has loaded the task file
    file_writer,         \* the workflow whose create_task_list wrote the file
    store_source,        \* who loaded tasks_store, and whose file it was
    \* ---- one agent's registry -------------------------------------------
    a_functions,         \* self.functions
    a_tools,             \* self.tools
    a_out                \* the latest add_tool or remove_tool call

dvars == <<d_agent, d_name, d_args, d_env, d_out>>
rvars == <<r_agent, r_messages, r_response, r_out>>
lvars == <<mode, agents, starting_agent_name, max_iterations, pc, current_agent_name, messages,
           iterations, stop, printed, last, n_oracle>>
bvars == <<workflow_status, workflow_running, current_conversation, wf>>
hvars == <<h_text, h_out, k_target, k_made, k_out>>
svars == <<tasks_store, tasks_extracted, file_writer, store_source>>
tvars == <<task_file, task_out, writers, svars>>
gvars == <<a_functions, a_tools, a_out>>
vars == <<dvars, rvars, lvars, bvars, hvars, tvars, gvars>>

----------------------------------------------------------------------------
\* Bounds of the model.

\* Largest max_iterations argument given to a loop.
MaxIter == 2
\* Largest number of tool-call requests in one oracle response (SpecRun).
MaxCalls == 2
\* Largest number of agent runs made by all bridge workflows together.
MaxBridgeTurns == 3
\* Largest number of background tasks the bridge is given.
MaxWorkflows == 2

----------------------------------------------------------------------------
\* Text.

TR == "Transferred to: "
DOT == "."
NL == "\n"

RECURSIVE Join(_)
\* The text a token sequence stands for.
Join(s) == IF s = <<>> THEN "" ELSE Head(s) \o Join(Tail(s))

IsPrefix(p, s) == Len(p) <= Len(s) /\ SubSeq(s, 1, Len(p)) = p

\* Tokens whose lower-cased text contains "transfer".
TransferTokens ==
    {TR, "I will transfer you", "transfer_to_b", "transfer_to_coder_agent",
     "transfer_to_tester_agent", "transfer_to_database_agent",
     "transfer_to_research_agent", "transfer_to_orchestrator_agent"}

\* "transfer" in text.lower()
HasTransfer(s) == \E i \in 1..Len(s) : s[i] \in TransferTokens

----------------------------------------------------------------------------
\* Handoff protocol.

HandoffTextSpaced(name) ==
    <<TR, " ">> \o name \o <<DOT, " Adopt persona immediately", DOT>>

\* HANDOFF_TEMPLATE.format(agent_name = Join(name))
HandoffText(name) == <<TR>> \o name \o <<DOT, " Adopt persona immediately", DOT>>

\* Where (?:\.|$) can match: at a '.', at the end of the text, or just
\* before a line break that ends the text.
PatternEnd(s, j) ==
    \/ j = Len(s) + 1
    \/ j <= Len(s) /\ s[j] = DOT
    \/ j = Len(s) /\ s[j] = NL

MatchEndsAcrossLines(s, i) == {j \in (i + 1)..(Len(s) + 1) : PatternEnd(s, j)}

\* The positions j at which a match starting with the literal at i can end:
\* (.*?) takes the tokens i+1..j-1, none of which may be a line break.
MatchEnds(s, i) ==
    {j \in (i + 1)..(Len(s) + 1) :
        /\ PatternEnd(s, j)
        /\ \A k \in (i + 1)..(j - 1) : s[k] # NL}

Min(S) == CHOOSE x \in S : \A y \in S : x <= y

\* The positions at which HANDOFF_PATTERN matches.
MatchStarts(s) == {i \in 1..Len(s) : s[i] = TR /\ MatchEnds(s, i) # {}}

\* re.search(HANDOFF_PATTERN, s): the leftmost match, and in it the
\* shortest group(1).
HandoffSearch(s) ==
    IF MatchStarts(s) = {} THEN [found |-> FALSE, target |-> <<>>]
    ELSE LET i == Min(MatchStarts(s))
             j == Min(MatchEnds(s, i))
         IN  [found |-> TRUE, target |-> SubSeq(s, i + 1, j - 1)]

----------------------------------------------------------------------------
\* Capabilities and registries.

\* A tool of the repository: its body catches every exception itself.
Tool(name, required, optional) ==
    [name |-> name, kind |-> "tool", target |-> <<>>,
     required |-> required, optional |-> optional, can_raise |-> FALSE]

\* A capability supplied by a caller of the library: nothing is known of
\* its body, which may return any text or raise.
Opaque(name, required, optional) ==
    [name |-> name, kind |-> "tool", target |-> <<>>,
     required |-> required, optional |-> optional, can_raise |-> TRUE]

\* str.lower() on the pieces names are made of.
LowerPiece(piece) ==
    CASE piece = "Orchestrator" -> "orchestrator"
      [] piece = "Coder" -> "coder"
      [] piece = "Tester" -> "tester"
      [] piece = "Database" -> "database"
      [] piece = "Research" -> "research"
      [] piece = "Agent" -> "agent"
      [] piece = "A" -> "a"
      [] piece = "B" -> "b"
      [] OTHER -> piece

\* name.lower()
StrLower(name) == [i \in 1..Len(name) |-> LowerPiece(name[i])]

\* name.replace(' ', '_')
ReplaceSpaces(name) ==
    [i \in 1..Len(name) |-> IF name[i] = " " THEN "_" ELSE name[i]]

LowerOnly(name) == StrLower(name)

\* target_agent_name.lower().replace(' ', '_')
LowerUnderscore(name) == ReplaceSpaces(StrLower(name))

\* create_handoff_function(target_agent_name): the name is given by the
\* pieces it is made of.
create_handoff_function(target_agent_name) ==
    [name |-> "transfer_to_" \o Join(LowerUnderscore(target_agent_name)),
     kind |-> "handoff", target |-> target_agent_name,
     required |-> {}, optional |-> {}, can_raise |-> FALSE]

read_file == Tool("read_file", {<<"file_path">>}, {})
list_directory == Tool("list_directory", {}, {<<"dir_path">>})
finalize_function ==
    Tool("finalize_function",
         {<<"function_name">>, <<"target_file">>, <<"temp_file">>}, {})
create_task_list == Tool("create_task_list", {<<"tasks">>}, {})
update_task_status == Tool("update_task_status", {<<"task_index">>, <<"status">>}, {})
create_function ==
    Tool("create_function",
         {<<"function_name">>, <<"function_code">>, <<"file_path">>}, {})
fix_function ==
    Tool("fix_function",
         {<<"function_name">>, <<"fixed_code">>, <<"error_details">>}, {})
setup_test_environment == Tool("setup_test_environment", {}, {<<"required_packages">>})
write_unit_tests ==
    Tool("write_unit_tests",
         {<<"function_name">>, <<"test_code">>, <<"function_file">>}, {})
run_unit_tests ==
    Tool("run_unit_tests", {<<"test_file">>, <<"function_file">>}, {<<"use_venv">>})
kg_updater ==
    Tool("kg_updater", {<<"text_content">>, <<"source_info">>},
         {<<"schema_config">>, <<"chunk_size">>, <<"chunk_overlap">>})
kg_retriever ==
    Tool("kg_retriever", {<<"query">>},
         {<<"retrieval_type">>, <<"top_k">>, <<"custom_cypher">>})
web_search == Tool("web_search", {<<"query">>}, {})

\* A capability of the scenario agent A that is not a tool of the repository.
flaky == Opaque("flaky", {}, {})

\* The five agents of create_coding_agents, and the two agents A (handoff to
\* B, one capability of its own) and B (no tools) of the end-to-end scenario.
CodingAgentNames ==
    {"Orchestrator Agent", "Coder Agent", "Tester Agent", "Database Agent",
     "Research Agent"}
ScenarioAgentNames == {"A", "B"}
AgentNames == CodingAgentNames \cup ScenarioAgentNames

\* The handoff capabilities the agents register.
transfer_to_coder_agent == create_handoff_function(<<"Coder", " ", "Agent">>)
transfer_to_tester_agent == create_handoff_function(<<"Tester", " ", "Agent">>)
transfer_to_database_agent == create_handoff_function(<<"Database", " ", "Agent">>)
transfer_to_research_agent == create_handoff_function(<<"Research", " ", "Agent">>)
transfer_to_orchestrator_agent == create_handoff_function(<<"Orchestrator", " ", "Agent">>)
transfer_to_b == create_handoff_function(<<"B">>)

\* self.functions of each agent after its constructor, in registration order.
OrchestratorFunctions ==
    <<read_file, list_directory, finalize_function, create_task_list,
      update_task_status, transfer_to_coder_agent, transfer_to_tester_agent,
      transfer_to_database_agent, transfer_to_research_agent>>
\* A Coder Agent whose handoff targets an agent outside the default set.
CoderFunctionsToB == <<create_function, fix_function, transfer_to_b>>

CoderFunctions == <<create_function, fix_function, transfer_to_orchestrator_agent>>
TesterFunctions ==
    <<setup_test_environment, write_unit_tests, run_unit_tests,
      transfer_to_orchestrator_agent>>
DatabaseFunctions == <<kg_updater, kg_retriever, transfer_to_orchestrator_agent>>
ResearchFunctions == <<web_search, transfer_to_orchestrator_agent>>
ScenarioAFunctions == <<transfer_to_b, flaky>>

\* One registry shared by the coding agents.
FunctionsShared(agent) ==
    IF agent \in CodingAgentNames
    THEN OrchestratorFunctions \o CoderFunctions \o TesterFunctions
            \o DatabaseFunctions \o ResearchFunctions
    ELSE IF agent = "A" THEN ScenarioAFunctions ELSE <<>>

\* agent.functions
Functions(agent) ==
    CASE agent = "Orchestrator Agent" -> OrchestratorFunctions
      [] agent = "Coder Agent" -> CoderFunctions
      [] agent = "Tester Agent" -> TesterFunctions
      [] agent = "Database Agent" -> DatabaseFunctions
      [] agent = "Research Agent" -> ResearchFunctions
      [] agent = "A" -> ScenarioAFunctions
      [] OTHER -> <<>>

\* agent.instructions, as one token.
Instructions(agent) == <<"instructions of " \o agent>>

----------------------------------------------------------------------------
\* Argument blobs and json.loads.

B_EMPTY == "{}"
B_PATH == "{\"file_path\": \"a\"}"
B_SENTINEL == "{\"Transferred to: Ghost.\": 1}"
B_BAD == "{bad"
B_NOTHING == ""
B_FINALIZE == "{\"function_name\": \"f\", \"target_file\": \"t\", \"temp_file\": \"a\"}"
B_TESTS == "{\"test_file\": \"a\", \"function_file\": \"t\"}"
B_TASKS_A == "{\"tasks\": \"[\\\"A\\\"]\"}"
B_TASKS_B == "{\"tasks\": \"[\\\"B\\\"]\"}"
B_LIST == "[1]"
B_NULL == "null"

Blobs ==
    {B_EMPTY, B_PATH, B_SENTINEL, B_BAD, B_NOTHING, B_LIST, B_NULL,
     B_FINALIZE, B_TESTS, B_TASKS_A}

\* json.loads(blob): the parsed value (an object with its keys in order, or
\* a value of another type), or the JSONDecodeError's message.
JsonLoads(blob) ==
    CASE blob = B_EMPTY ->
            [ok |-> TRUE, type |-> "dict", keys |-> <<>>, err |-> <<>>]
      [] blob = B_PATH ->
            [ok |-> TRUE, type |-> "dict", keys |-> <<<<"file_path">>>>, err |-> <<>>]
      [] blob = B_SENTINEL ->
            [ok |-> TRUE, type |-> "dict", keys |-> <<<<TR, "Ghost", DOT>>>>,
             err |-> <<>>]
      [] blob = B_LIST ->
            [ok |-> TRUE, type |-> "list", keys |-> <<>>, err |-> <<>>]
      [] blob = B_NULL ->
            [ok |-> TRUE, type |-> "NoneType", keys |-> <<>>, err |-> <<>>]
      [] blob = B_FINALIZE ->
            [ok |-> TRUE, type |-> "dict",
             keys |-> <<<<"function_name">>, <<"target_file">>, <<"temp_file">>>>,
             err |-> <<>>]
      [] blob = B_TESTS ->
            [ok |-> TRUE, type |-> "dict",
             keys |-> <<<<"test_file">>, <<"function_file">>>>, err |-> <<>>]
      [] blob \in {B_TASKS_A, B_TASKS_B} ->
            [ok |-> TRUE, type |-> "dict", keys |-> <<<<"tasks">>>>, err |-> <<>>]
      [] blob = B_BAD ->
            [ok |-> FALSE, type |-> "", keys |-> <<>>,
             err |-> <<"Expecting property name enclosed in double quotes: line 1 column 2 (char 1)">>]
      [] OTHER ->
            [ok |-> FALSE, type |-> "", keys |-> <<>>,
             err |-> <<"Expecting value: line 1 column 1 (char 0)">>]

----------------------------------------------------------------------------
\* What a capability's body does once it runs: env is the behaviour of the
\* world the body meets (the text it returns, or the message of the
\* Exception it raises).

E_OK == [raises |-> FALSE, text |-> <<"ok">>]
E_BOOM == [raises |-> TRUE, text |-> <<"boom">>]
E_GHOST == [raises |-> FALSE, text |-> <<"see ", TR, "Ghost", DOT, " Proceeding", DOT>>]
E_BOOM_B == [raises |-> TRUE, text |-> <<"lost ", TR, "B">>]

Envs == {E_OK, E_BOOM, E_GHOST, E_BOOM_B}

\* Outcome of evaluating an expression: a value (exc = FALSE) or an
\* Exception with its message (exc = TRUE).
Value(text) == [exc |-> FALSE, text |-> text]
Raise(text) == [exc |-> TRUE, text |-> text]

\* The name Python reports in a TypeError of a call: the code object's
\* qualified name, which create_handoff_function's renaming does not change.
QualName(cap) ==
    IF cap.kind = "handoff"
    THEN <<"create_handoff_function", DOT, "<locals>", DOT, "handoff_func">>
    ELSE <<cap.name>>

\* The keys of the parsed object that are no parameter of the capability.
Unexpected(cap, keys) ==
    {i \in 1..Len(keys) : keys[i] \notin (cap.required \cup cap.optional)}

\* The line of three backquotes read_file puts around the content.
FENCE == "<fence>"

\* read_file(file_path) with file_path = "a", the one path the argument
\* blobs of the model bind: the content of the file inside a fence, or the
\* message of the exception met while reading it.
ReadFileText(env) ==
    IF env.raises THEN <<"Error reading file 'a': ">> \o env.text
    ELSE <<"Content of a:", NL, FENCE, NL>> \o env.text \o <<NL, FENCE>>

\* finalize_function(function_name, target_file, temp_file): the success
\* object once the temp file was read and the target written, or the error
\* object with the message of the exception met on the way.
FINALIZED == "{\"status\": \"success\", \"message\": \"Function 'f' finalized and added to t\", \"file\": \"t\"}"

FinalizeText(env) ==
    IF env.raises
    THEN <<"{\"status\": \"error\", \"message\": \"Error finalizing function: ">>
            \o env.text \o <<"\"}">>
    ELSE <<FINALIZED>>

\* run_unit_tests(test_file, function_file): pytest's return code decides
\* between "passed" and "failed"; the output "ok" stands for return code 0,
\* any other output for another return code; an exception of the run gives
\* the error object.
PASSED == "\"status\": \"passed\", \"message\": \"All tests passed successfully\"}"
FAILED == "\"status\": \"failed\", \"message\": \"Some tests failed\", \"needs_fix\": true}"

ReturnCode(env) == IF env.text = <<"ok">> THEN 0 ELSE 1

RunTestsText(env) ==
    IF env.raises
    THEN <<"{\"status\": \"error\", \"message\": \"Error running tests: ">>
            \o env.text \o <<"\", \"needs_fix\": true}">>
    ELSE <<"{\"test_file\": \"a\", \"output\": \"">> \o env.text \o <<"\", ">>
            \o <<IF ReturnCode(env) = 0 THEN PASSED ELSE FAILED>>

\* The body of a capability: handoff_func returns the sentinel text; a tool
\* of the repository returns text whatever happens inside it; a capability
\* of unknown body returns text or raises.
Body(cap, env) ==
    IF cap.kind = "handoff" THEN Value(HandoffText(cap.target))
    ELSE IF cap.name = "read_file" THEN Value(ReadFileText(env))
    ELSE IF cap.name = "finalize_function" THEN Value(FinalizeText(env))
    ELSE IF cap.name = "run_unit_tests" THEN Value(RunTestsText(env))
    ELSE IF env.raises /\ cap.can_raise THEN Raise(env.text)
    ELSE Value(env.text)

\* func(**args): Python binds the keyword arguments, then runs the body.
Call(cap, parsed, env) ==
    IF parsed.type # "dict"
    THEN Raise(QualName(cap)
               \o <<"() argument after ** must be a mapping, not ", parsed.type>>)
    ELSE IF Unexpected(cap, parsed.keys) # {}
    THEN Raise(QualName(cap) \o <<"() got an unexpected keyword argument '">>
               \o parsed.keys[Min(Unexpected(cap, parsed.keys))] \o <<"'">>)
    ELSE IF \E p \in cap.required : \A i \in 1..Len(parsed.keys) : parsed.keys[i] # p
    THEN Raise(QualName(cap) \o <<"() missing required positional arguments">>)
    ELSE Body(cap, env)

\* Whether func(**args) gets as far as running the body of the capability.
BodyRuns(cap, parsed) ==
    /\ parsed.ok
    /\ parsed.type = "dict"
    /\ Unexpected(cap, parsed.keys) = {}
    /\ \A p \in cap.required : \E i \in 1..Len(parsed.keys) : parsed.keys[i] = p

----------------------------------------------------------------------------
\* Tool registry: dispatch.

\* next((f for f in self.functions if f.__name__ == function_name), None):
\* the index of the first capability of that name, 0 for None.
First(hits) == IF hits = {} THEN 0 ELSE Min(hits)
FirstNamed(functions, function_name) ==
    First({i \in 1..Len(functions) : functions[i].name = function_name})
Lookup(agent, function_name) == FirstNamed(Functions(agent), function_name)

NotFoundText(function_name) == <<"Error: Function ", function_name, " not found">>
ErrorPrefix(function_name) == <<"Error executing ", function_name, ": ">>

\* A dispatch that parses the arguments before it looks the name up.
InvokeTryParseFirst(agent, function_name, arguments, env) ==
    LET i == Lookup(agent, function_name)
        parsed == JsonLoads(arguments)
    IN  IF ~parsed.ok THEN Raise(parsed.err)
        ELSE IF i = 0 THEN Value(NotFoundText(function_name))
        ELSE Call(Functions(agent)[i], parsed, env)

\* The try block of _invoke_function, with func = functions[i] (None when
\* i = 0) and args = parsed.
TryBlock(functions, i, function_name, parsed, env) ==
    IF i = 0 THEN Value(NotFoundText(function_name))
    ELSE IF ~parsed.ok THEN Raise(parsed.err)
    ELSE Call(functions[i], parsed, env)

\* The try block of _invoke_function.
InvokeTry(agent, function_name, arguments, env) ==
    TryBlock(Functions(agent), Lookup(agent, function_name), function_name,
             JsonLoads(arguments), env)

RanAt(functions, i, parsed) ==
    IF i # 0 /\ BodyRuns(functions[i], parsed) THEN functions[i].name ELSE ""
\* The capability whose body ran during the dispatch, "" when none did.
Ran(agent, function_name, arguments) ==
    RanAt(Functions(agent), Lookup(agent, function_name), JsonLoads(arguments))

\* A dispatch whose handler catches the JSONDecodeError alone.
invoke_function_json_only(agent, function_name, arguments, env) ==
    LET t == InvokeTry(agent, function_name, arguments, env)
        caught == t.exc /\ ~JsonLoads(arguments).ok
    IN  [raised |-> t.exc /\ ~caught,
         text |-> IF caught THEN ErrorPrefix(function_name) \o t.text ELSE t.text,
         ran |-> Ran(agent, function_name, arguments)]

\* A handler that returns the message of the exception alone.
ExceptExceptionRaw(function_name, t) == t.text
\* except Exception as e: the text returned for the outcome t of the try
\* block.
ExceptException(function_name, t) ==
    IF t.exc THEN ErrorPrefix(function_name) \o t.text ELSE t.text

\* BaseAgent._invoke_function: the try block, and the handler that turns
\* every Exception into text.  raised tells whether the call raised.
invoke_function(agent, function_name, arguments, env) ==
    [raised |-> FALSE,
     text |-> ExceptException(function_name,
                              InvokeTry(agent, function_name, arguments, env)),
     ran |-> Ran(agent, function_name, arguments)]

----------------------------------------------------------------------------
\* Messages.

\* The value of a key that a message dict does not have.
Absent == "<absent>"

\* {"role": "system", "content": self.instructions}
SystemMessage(agent) ==
    [role |-> "system", content |-> Instructions(agent), tool_calls |-> <<>>,
     tool_call_id |-> Absent]

\* {"role": "user", "content": text}
UserMessage(text) ==
    [role |-> "user", content |-> text, tool_calls |-> <<>>, tool_call_id |-> Absent]

\* message_dict: the assistant message; tool_calls = <<>> stands for a dict
\* without the key (the key is set only for a non-empty list), and each
\* recorded call keeps the id, the name and the arguments of the request.
AssistantMessage(content, tool_calls) ==
    [role |-> "assistant", content |-> content,
     tool_calls |-> [i \in 1..Len(tool_calls) |->
                        [id |-> tool_calls[i].id, name |-> tool_calls[i].name,
                         arguments |-> tool_calls[i].arguments]],
     tool_call_id |-> Absent]

ToolMessageWithName(tool_call, result) ==
    [role |-> "tool", content |-> result, tool_calls |-> <<>>,
     tool_call_id |-> tool_call.name]
\* tool_message
ToolMessage(tool_call, result) ==
    [role |-> "tool", content |-> result, tool_calls |-> <<>>,
     tool_call_id |-> tool_call.id]

----------------------------------------------------------------------------
\* Agent core: one turn.
\*
\* A response of the oracle is [fails, content, tool_calls]: the call raised
\* (fails), or it returned an assistant message with its content ("" for
\* None) and its tool calls, each [id, name, arguments, env] where env is
\* not part of the request: it is what the body of the capability will do
\* if the dispatch runs it.

\* A prompt without the system message.
FullMessagesNoSystem(agent, msgs) == msgs
\* full_messages = [system message] + messages
FullMessages(agent, msgs) == <<SystemMessage(agent)>> \o msgs

\* result of the i-th dispatch of the turn
Result(agent, tool_calls, i) ==
    invoke_function(agent, tool_calls[i].name, tool_calls[i].arguments,
                    tool_calls[i].env)

\* The results of the for loop over the tool calls, in request order.
Results(agent, tool_calls) ==
    [i \in 1..Len(tool_calls) |-> Result(agent, tool_calls, i)]

ReceivedInPlace(agent, msgs) == <<SystemMessage(agent)>> \o msgs
\* The caller's list after run: the concatenation builds a new list, the
\* list received is not written.
Received(agent, msgs) == msgs

RECURSIVE NextAgentFirst(_, _, _)
NextAgentFirst(agent, results, n) ==
    IF n = 0 THEN agent
    ELSE LET before == NextAgentFirst(agent, results, n - 1)
             match == HandoffSearch(results[n].text)
         IN  IF match.found /\ before = agent THEN Join(match.target) ELSE before

AdoptAnyway(match, otherwise) == Join(match.target)

\* if match: next_agent_name = match.group(1)
Adopt(match, otherwise) == IF match.found THEN Join(match.target) ELSE otherwise

RECURSIVE NextAgentHandoffOnly(_, _, _)
NextAgentHandoffOnly(agent, results, n) ==
    IF n = 0 THEN agent
    ELSE IF results[n].ran \in TransferTokens
    THEN Adopt(HandoffSearch(results[n].text),
               NextAgentHandoffOnly(agent, results, n - 1))
    ELSE NextAgentHandoffOnly(agent, results, n - 1)

RECURSIVE NextAgent(_, _, _)
\* next_agent_name after the first n tool calls of the for loop: it starts
\* as self.name and every result that matches overwrites it.
NextAgent(agent, results, n) ==
    IF n = 0 THEN agent
    ELSE Adopt(HandoffSearch(results[n].text), NextAgent(agent, results, n - 1))

NewMessagesNoAssistant(response, results) ==
    IF response.tool_calls # <<>>
    THEN [i \in 1..Len(response.tool_calls) |->
              ToolMessage(response.tool_calls[i], results[i].text)]
    ELSE <<AssistantMessage(response.content, <<>>)>>
\* new_messages of a turn whose oracle call returned
NewMessages(response, results) ==
    IF response.tool_calls # <<>>
    THEN <<AssistantMessage(response.content, response.tool_calls)>> \o
         [i \in 1..Len(response.tool_calls) |->
              ToolMessage(response.tool_calls[i], results[i].text)]
    ELSE <<AssistantMessage(response.content, <<>>)>>

\* The capabilities whose bodies ran in the turn, in order ("" where the
\* dispatch ran none).
Dispatched(results) == [i \in 1..Len(results) |-> results[i].ran]

\* A run that catches the failure of the oracle call and answers with an
\* empty assistant message.
RunOutcomeSwallow(agent, msgs, response, results) ==
    [raised |-> FALSE, next |-> agent,
     new |-> <<AssistantMessage(<<>>, <<>>)>>,
     request |-> FullMessages(agent, msgs), received |-> Received(agent, msgs),
     ran |-> Dispatched(results)]
\* run once the oracle call was made and the tool calls of its response
\* were dispatched with these results.
RunOutcome(agent, msgs, response, results) ==
    IF response.fails
    THEN [raised |-> TRUE, next |-> "", new |-> <<>>,
          request |-> FullMessages(agent, msgs), received |-> Received(agent, msgs),
          ran |-> <<>>]
    ELSE IF \E i \in 1..Len(results) : results[i].raised
    THEN [raised |-> TRUE, next |-> "", new |-> <<>>,
          request |-> FullMessages(agent, msgs), received |-> Received(agent, msgs),
          ran |-> Dispatched(results)]
    ELSE [raised |-> FALSE,
          next |-> NextAgent(agent, results, Len(results)),
          new |-> NewMessages(response, results),
          request |-> FullMessages(agent, msgs), received |-> Received(agent, msgs),
          ran |-> Dispatched(results)]

\* BaseAgent.run(messages) with the oracle answering response.
\*   raised:   run raised (the oracle call failed, or a dispatch raised)
\*   next:     next_agent_name
\*   new:      new_messages
\*   request:  the messages sent to the oracle
\*   received: the caller's list after the call
\*   ran:      the capabilities whose bodies ran
Run(agent, msgs, response) ==
    RunOutcome(agent, msgs, response, Results(agent, response.tool_calls))

----------------------------------------------------------------------------
\* Values of the variables of a harness or loop that a specification does
\* not use.

NoOutcome == [done |-> FALSE]

IdleDispatch ==
    /\ d_agent = "" /\ d_name = "" /\ d_args = "" /\ d_env = E_OK
    /\ d_out = NoOutcome

IdleRun ==
    /\ r_agent = "" /\ r_messages = <<>> /\ r_response = NoOutcome
    /\ r_out = NoOutcome

IdleLoops ==
    /\ mode = "" /\ agents = <<>> /\ starting_agent_name = ""
    /\ max_iterations = 0 /\ pc = ""
    /\ current_agent_name = "" /\ messages = <<>> /\ iterations = 0
    /\ stop = "" /\ printed = <<>> /\ last = [op |-> ""] /\ n_oracle = 0

IdleBridge ==
    /\ workflow_status = "idle" /\ workflow_running = FALSE
    /\ current_conversation = <<>> /\ wf = <<>>

IdleHandoff ==
    /\ h_text = <<>> /\ h_out = NoOutcome
    /\ k_target = <<>> /\ k_made = <<>> /\ k_out = NoOutcome

\* What stands for the absence of .agent_workspace/_active_tasks.json.
NoFile == [exists |-> FALSE, text |-> <<>>]

\* The file holding a text.
File(text) == [exists |-> TRUE, text |-> text]

\* No concurrent call is under way.
NoWriters == [w |-> <<>>, overlap |-> FALSE, order |-> <<>>]

\* self.tools = None, standing for tool schemas that are absent.
NoTools == [none |-> TRUE, list |-> <<>>]

\* No agent is under registry calls.
IdleRegistry ==
    a_functions = <<>> /\ a_tools = NoTools /\ a_out = [op |-> ""]

\* tasks_store = [], and nothing written or loaded by any workflow.
IdleStore ==
    /\ tasks_store = <<>>
    /\ tasks_extracted = [t \in 1..MaxWorkflows |-> FALSE]
    /\ file_writer = 0
    /\ store_source = [by |-> 0, from |-> 0]

IdleTasks ==
    /\ task_file = NoFile /\ task_out = NoOutcome /\ writers = NoWriters
    /\ IdleStore

----------------------------------------------------------------------------
\* SpecDispatch: _invoke_function on every registry, requested name,
\* argument blob and behaviour of the capability's body.

\* Every name some agent registers, and one that no agent registers.
RequestNames == 
    UNION {{Functions(a)[i].name : i \in 1..Len(Functions(a))} : a \in AgentNames}
    \cup {"no_such_tool"}

InitDispatch ==
    /\ d_agent \in AgentNames
    /\ d_name \in RequestNames
    /\ d_args \in Blobs
    /\ d_env \in Envs
    /\ d_out = NoOutcome
    /\ IdleRun /\ IdleLoops /\ IdleBridge /\ IdleHandoff /\ IdleTasks /\ IdleRegistry

\* result = self._invoke_function(function_name, arguments)
Dispatch ==
    /\ ~d_out.done
    /\ d_out' = [done |-> TRUE,
                 res |-> invoke_function(d_agent, d_name, d_args, d_env)]
    /\ UNCHANGED <<d_agent, d_name, d_args, d_env, rvars, lvars, bvars, hvars, tvars,
                   gvars>>

NextDispatch == Dispatch

SpecDispatch == InitDispatch /\ [][NextDispatch]_vars

----------------------------------------------------------------------------
\* Claims about dispatch (checked under SpecDispatch).

Contains(s, tok) == \E i \in 1..Len(s) : s[i] = tok

\* The blob does not parse to a JSON object.
NotAnObject(blob) == ~JsonLoads(blob).ok \/ JsonLoads(blob).type # "dict"

\* C6: dispatch of a name that is not in the agent's registry never raises,
\* returns exactly "Error: Function {name} not found" whatever the argument
\* blob is (valid JSON or not), and runs no capability.
C6_UnregisteredNotFound ==
    (d_out.done /\ Lookup(d_agent, d_name) = 0) =>
        /\ ~d_out.res.raised
        /\ d_out.res.text = <<"Error: Function ", d_name, " not found">>
        /\ d_out.res.ran = ""

\* C6 witness: an unregistered name was dispatched with a blob that is not
\* valid JSON, in a registry that is not empty.
C6_Witness ==
    /\ d_out.done
    /\ Lookup(d_agent, d_name) = 0
    /\ Functions(d_agent) # <<>>
    /\ ~JsonLoads(d_args).ok

\* C7 as stated: for every malformed argument blob and every requested name,
\* dispatch returns a string containing "Error executing" and never raises.
C7_Original ==
    (d_out.done /\ NotAnObject(d_args)) =>
        /\ ~d_out.res.raised
        /\ Contains(d_out.res.text, "Error executing ")

\* C7 amended: for every argument blob that is malformed for the requested
\* capability (no JSON, no JSON object, or keys that its parameters do not
\* accept), dispatch of a name that is in the registry never raises and
\* returns a string starting with "Error executing {name}: "; for a name
\* that is not in the registry a malformed blob yields the not-found string,
\* which does not contain "Error executing".
C7_MalformedRegistered ==
    d_out.done =>
        /\ ~d_out.res.raised
        /\ (Lookup(d_agent, d_name) # 0
            /\ ~BodyRuns(Functions(d_agent)[Lookup(d_agent, d_name)], JsonLoads(d_args)))
           => IsPrefix(<<"Error executing ", d_name, ": ">>, d_out.res.text)
        /\ (Lookup(d_agent, d_name) = 0 /\ NotAnObject(d_args))
           => ~Contains(d_out.res.text, "Error executing ")

\* C7 witness: a registered capability was dispatched with a blob that
\* parses to a JSON value that is no object.
C7_Witness ==
    /\ d_out.done
    /\ Lookup(d_agent, d_name) # 0
    /\ JsonLoads(d_args).ok
    /\ JsonLoads(d_args).type = "list"
    /\ Contains(d_out.res.text, "Error executing ")

----------------------------------------------------------------------------
\* SpecRun: one call of BaseAgent.run, on every oracle response of up to
\* MaxCalls tool calls.

Request(name, arguments, env) == [name |-> name, arguments |-> arguments, env |-> env]

\* The tool calls an oracle response is made of.
CallOptions ==
    {Request("transfer_to_b", B_EMPTY, E_OK),
     Request("transfer_to_coder_agent", B_EMPTY, E_OK),
     Request("flaky", B_EMPTY, E_OK),
     Request("flaky", B_EMPTY, E_BOOM),
     Request("flaky", B_EMPTY, E_GHOST),
     Request("flaky", B_EMPTY, E_BOOM_B),
     Request("read_file", B_PATH, E_GHOST),
     Request("read_file", B_SENTINEL, E_OK),
     Request("no_such_tool", B_BAD, E_OK)}

CallIds == {"call_1", "call_2"}

WithId(req, id) ==
    [id |-> id, name |-> req.name, arguments |-> req.arguments, env |-> req.env]

ToolCalls == {WithId(req, id) : req \in CallOptions, id \in CallIds}

OracleFailure == [fails |-> TRUE, content |-> <<>>, tool_calls |-> <<>>]
Answer(content, tool_calls) ==
    [fails |-> FALSE, content |-> content, tool_calls |-> tool_calls]

Contents == {<<>>, <<"Done">>}

RunResponses ==
    {OracleFailure} \cup
    {Answer(c, tcs) : c \in Contents,
                      tcs \in UNION {[1..n -> ToolCalls] : n \in 0..MaxCalls}}

RunAgents == {"Orchestrator Agent", "A", "B"}

Histories ==
    {<<UserMessage(<<"hello">>), AssistantMessage(<<"Done">>, <<>>),
       UserMessage(<<"more">>)>>}

InitRun ==
    /\ r_agent \in RunAgents
    /\ r_messages \in Histories
    /\ r_response \in RunResponses
    /\ r_out = NoOutcome
    /\ IdleDispatch /\ IdleLoops /\ IdleBridge /\ IdleHandoff /\ IdleTasks /\ IdleRegistry

\* next_agent_name, new_messages = agent.run(messages)
RunStep ==
    /\ ~r_out.done
    /\ r_out' = [done |-> TRUE, res |-> Run(r_agent, r_messages, r_response)]
    /\ UNCHANGED <<r_agent, r_messages, r_response, dvars, lvars, bvars, hvars, tvars,
                   gvars>>

NextRun == RunStep

SpecRun == InitRun /\ [][NextRun]_vars

----------------------------------------------------------------------------
\* Claims about one turn (checked under SpecRun).

Max(S) == CHOOSE x \in S : \A y \in S : y <= x

\* C1: for an oracle response with N >= 1 tool calls, run returns exactly
\* 1 + N messages: an assistant message recording the N calls in order, then
\* for each i the tool message of the i-th call, with its id and the result
\* of its dispatch; for a response without tool calls it returns exactly
\* one plain assistant message and the agent's own name as next agent.
C1_RunShape ==
    (r_out.done /\ ~r_response.fails) =>
        LET tcs == r_response.tool_calls
            new == r_out.res.new
            N == Len(tcs)
        IN  /\ ~r_out.res.raised
            /\ N >= 1 =>
                /\ Len(new) = 1 + N
                /\ new[1].role = "assistant"
                /\ new[1].content = r_response.content
                /\ Len(new[1].tool_calls) = N
                /\ \A i \in 1..N :
                    /\ new[1].tool_calls[i].id = tcs[i].id
                    /\ new[1].tool_calls[i].name = tcs[i].name
                    /\ new[1].tool_calls[i].arguments = tcs[i].arguments
                    /\ new[1 + i].role = "tool"
                    /\ new[1 + i].tool_call_id = tcs[i].id
                    /\ new[1 + i].content =
                         invoke_function(r_agent, tcs[i].name, tcs[i].arguments,
                                         tcs[i].env).text
            /\ N = 0 =>
                /\ new = <<[role |-> "assistant", content |-> r_response.content,
                            tool_calls |-> <<>>, tool_call_id |-> Absent]>>
                /\ r_out.res.next = r_agent

\* C1 witness: a turn of two tool calls with different ids whose dispatches
\* gave different results.
C1_Witness ==
    /\ r_out.done
    /\ Len(r_response.tool_calls) = 2
    /\ r_response.tool_calls[1].id # r_response.tool_calls[2].id
    /\ Len(r_out.res.new) = 3
    /\ r_out.res.new[2].content # r_out.res.new[3].content

\* The tool messages of the returned turn whose content matches the
\* handoff pattern (positions in request order).
Matching(new) == {i \in 2..Len(new) : HandoffSearch(new[i].content).found}

\* C2: in a turn with tool calls the next agent is the target extracted
\* from the last tool result, in request order, that matches the handoff
\* pattern; when no result of the turn matches it is the running agent.
C2_LastMatchWins ==
    (r_out.done /\ ~r_out.res.raised /\ r_response.tool_calls # <<>>) =>
        LET new == r_out.res.new
        IN  r_out.res.next =
                IF Matching(new) = {} THEN r_agent
                ELSE Join(HandoffSearch(new[Max(Matching(new))].content).target)

\* C2 witness: two results of one turn match the pattern with different
\* targets, and the later one was returned.
C2_Witness ==
    /\ r_out.done
    /\ Len(r_out.res.new) = 3
    /\ Matching(r_out.res.new) = {2, 3}
    /\ HandoffSearch(r_out.res.new[2].content).target
         # HandoffSearch(r_out.res.new[3].content).target
    /\ r_out.res.next = Join(HandoffSearch(r_out.res.new[3].content).target)

----------------------------------------------------------------------------
\* The conversation loops (Spec).

\* create_coding_agents(): the keys of the returned dict, in order.
create_coding_agents ==
    <<"Orchestrator Agent", "Coder Agent", "Tester Agent", "Database Agent",
      "Research Agent">>
\* The agent set of the end-to-end scenario.
ScenarioAgents == <<"A", "B">>

AgentDicts == {<<>>, create_coding_agents, ScenarioAgents}
StartNames == {"", "B", "Ghost"}

\* A lookup that finds an agent for every name.
RegisteredAlways(name) == TRUE
\* agents.get(name) finds an agent.
Registered(name) == \E i \in 1..Len(agents) : agents[i] = name

Call1(req) == WithId(req, "call_1")
Call2(req) == WithId(req, "call_2")

\* What the oracle answers in the loops.
LoopResponses ==
    {OracleFailure,
     Answer(<<"Done">>, <<>>),
     Answer(<<"I will transfer you">>, <<>>),
     Answer(<<>>, <<Call1(Request("transfer_to_b", B_EMPTY, E_OK))>>),
     Answer(<<>>, <<Call1(Request("transfer_to_coder_agent", B_EMPTY, E_OK))>>),
     Answer(<<>>, <<Call1(Request("transfer_to_orchestrator_agent", B_EMPTY, E_OK))>>),
     Answer(<<>>, <<Call1(Request("flaky", B_EMPTY, E_BOOM)),
                    Call2(Request("flaky", B_EMPTY, E_OK))>>),
     Answer(<<>>, <<Call1(Request("flaky", B_EMPTY, E_GHOST))>>),
     Answer(<<>>, <<Call1(Request("read_file", B_SENTINEL, E_OK))>>)}

\* What the oracle answers in the bridge's workflows.
BridgeResponses ==
    {OracleFailure,
     Answer(<<"Done">>, <<>>),
     Answer(<<>>, <<Call1(Request("transfer_to_coder_agent", B_EMPTY, E_OK))>>),
     Answer(<<>>, <<Call1(Request("list_directory", B_EMPTY, E_OK))>>),
     Answer(<<>>, <<Call1(Request("read_file", B_SENTINEL, E_OK)),
                    Call2(Request("list_directory", B_EMPTY, E_OK))>>)}

\* What the user types.
Inputs == {"quit", " EXIT ", "", "  ", " hello "}

StripNothing(u) == u

\* input(...).strip(), on the inputs of the model
Strip(u) ==
    CASE u = " EXIT " -> "EXIT"
      [] u = "  " -> ""
      [] u = " hello " -> "hello"
      [] OTHER -> u

\* user_input.lower(), on the inputs of the model
Lower(u) == IF u = "EXIT" THEN "exit" ELSE u

\* The initial_prompt argument.
InitialPrompt == <<"hello">>

\* messages[-1]["role"]
LastRole(msgs) == msgs[Len(msgs)].role

\* The tokens of str(msg): the content, and the names, arguments and ids of
\* the recorded calls.
StrTokens(msg) ==
    msg.content \o [i \in 1..Len(msg.tool_calls) |-> msg.tool_calls[i].name]

\* any("transfer" in str(msg).lower() for msg in new_messages)
AnyTransfer(new) == \E i \in 1..Len(new) : HasTransfer(StrTokens(new[i]))

RunRecord(agent, before, response, out) ==
    [op |-> "run", agent |-> agent, before |-> before, response |-> response,
     out |-> out]

InitLoop ==
    /\ mode \in {"interactive", "programmatic"}
    /\ agents \in AgentDicts
    /\ starting_agent_name \in StartNames
    /\ max_iterations \in 0..MaxIter
    /\ pc = "start"
    /\ current_agent_name = "" /\ messages = <<>> /\ iterations = 0
    /\ stop = "" /\ printed = <<>> /\ last = [op |-> ""] /\ n_oracle = 0
    /\ IdleBridge
    /\ IdleDispatch /\ IdleRun /\ IdleHandoff /\ IdleTasks /\ IdleRegistry

\* ---- run_agent_loop ------------------------------------------------------

\* if not agents: raise ValueError; the cursor, the buffer, the counter
IStart ==
    /\ mode = "interactive" /\ pc = "start"
    /\ IF agents = <<>>
       THEN /\ pc' = "done" /\ stop' = "ValueError"
            /\ UNCHANGED current_agent_name
       ELSE /\ pc' = "head" /\ UNCHANGED stop
            /\ current_agent_name' =
                 IF starting_agent_name # "" THEN starting_agent_name ELSE agents[1]
    /\ last' = [op |-> "start"]
    /\ UNCHANGED <<mode, agents, starting_agent_name, max_iterations, messages,
                   iterations, printed, n_oracle, dvars, rvars, bvars, hvars, tvars,
                   gvars>>

ICapSilent ==
    /\ mode = "interactive" /\ pc = "head"
    /\ iterations >= max_iterations
    /\ pc' = "done" /\ stop' = "cap"
    /\ last' = [op |-> "cap", before |-> messages]
    /\ UNCHANGED <<mode, agents, starting_agent_name, max_iterations,
                   current_agent_name, messages, iterations, n_oracle,
                   printed, dvars, rvars, bvars, hvars, tvars, gvars>>

\* while iterations < max_iterations fails: the report after the loop
ICap ==
    /\ mode = "interactive" /\ pc = "head"
    /\ iterations >= max_iterations
    /\ printed' = Append(printed, "max_iterations")
    /\ pc' = "done" /\ stop' = "cap"
    /\ last' = [op |-> "cap", before |-> messages]
    /\ UNCHANGED <<mode, agents, starting_agent_name, max_iterations,
                   current_agent_name, messages, iterations, n_oracle,
                   dvars, rvars, bvars, hvars, tvars, gvars>>

\* agent = agents.get(current_agent_name); if not agent: print, break
INotFound ==
    /\ mode = "interactive" /\ pc = "head"
    /\ iterations < max_iterations
    /\ ~Registered(current_agent_name)
    /\ printed' = Append(printed, "agent_not_found")
    /\ pc' = "done" /\ stop' = "not_found"
    /\ last' = [op |-> "not_found", before |-> messages]
    /\ UNCHANGED <<mode, agents, starting_agent_name, max_iterations,
                   current_agent_name, messages, iterations, n_oracle,
                   dvars, rvars, bvars, hvars, tvars, gvars>>

NeedsInputAlways(msgs) == TRUE

\* if not messages or messages[-1]["role"] == "assistant"
NeedsInput(msgs) == msgs = <<>> \/ LastRole(msgs) = "assistant"

\* the agent is found: block for input, or go on to run the agent
IHead ==
    /\ mode = "interactive" /\ pc = "head"
    /\ iterations < max_iterations
    /\ Registered(current_agent_name)
    /\ pc' = IF NeedsInput(messages) THEN "input" ELSE "run"
    /\ last' = [op |-> "head"]
    /\ UNCHANGED <<mode, agents, starting_agent_name, max_iterations,
                   current_agent_name, messages, iterations, stop, printed,
                   n_oracle, dvars, rvars, bvars, hvars, tvars, gvars>>

IQuitIgnored(u) ==
    /\ mode = "interactive" /\ pc = "input"
    /\ Lower(Strip(u)) \in {"quit", "exit"}
    /\ pc' = "head"
    /\ last' = [op |-> "input", text |-> u]
    /\ UNCHANGED <<mode, agents, starting_agent_name, max_iterations,
                   current_agent_name, messages, iterations, stop, printed,
                   n_oracle, dvars, rvars, bvars, hvars, tvars, gvars>>

\* user_input.lower() in ["quit", "exit"]: print, break
IQuit(u) ==
    /\ mode = "interactive" /\ pc = "input"
    /\ Lower(Strip(u)) \in {"quit", "exit"}
    /\ printed' = Append(printed, "goodbye")
    /\ pc' = "done" /\ stop' = "quit"
    /\ last' = [op |-> "input", text |-> u]
    /\ UNCHANGED <<mode, agents, starting_agent_name, max_iterations,
                   current_agent_name, messages, iterations, n_oracle,
                   dvars, rvars, bvars, hvars, tvars, gvars>>

\* if not user_input: continue
IEmpty(u) ==
    /\ mode = "interactive" /\ pc = "input"
    /\ Lower(Strip(u)) \notin {"quit", "exit"}
    /\ Strip(u) = ""
    /\ pc' = "head"
    /\ last' = [op |-> "input", text |-> u]
    /\ UNCHANGED <<mode, agents, starting_agent_name, max_iterations,
                   current_agent_name, messages, iterations, stop, printed,
                   n_oracle, dvars, rvars, bvars, hvars, tvars, gvars>>

\* messages.append({"role": "user", "content": user_input})
IUser(u) ==
    /\ mode = "interactive" /\ pc = "input"
    /\ Lower(Strip(u)) \notin {"quit", "exit"}
    /\ Strip(u) # ""
    /\ messages' = Append(messages, UserMessage(<<Strip(u)>>))
    /\ pc' = "run"
    /\ last' = [op |-> "input", text |-> u]
    /\ UNCHANGED <<mode, agents, starting_agent_name, max_iterations,
                   current_agent_name, iterations, stop, printed, n_oracle,
                   dvars, rvars, bvars, hvars, tvars, gvars>>

\* current_agent_name, new_messages = agent.run(messages);
\* messages.extend(new_messages); iterations += 1
\* (an exception of run leaves run_agent_loop: nothing catches it)
IRun(response) ==
    /\ mode = "interactive" /\ pc = "run"
    /\ \E out \in {Run(current_agent_name, messages, response)} :
           /\ last' = RunRecord(current_agent_name, messages, response, out)
           /\ IF out.raised
              THEN /\ pc' = "done" /\ stop' = "exception"
                   /\ messages' = out.received
                   /\ UNCHANGED <<current_agent_name, iterations>>
              ELSE /\ pc' = "head" /\ UNCHANGED stop
                   /\ messages' = out.received \o out.new
                   /\ current_agent_name' = out.next
                   /\ iterations' = iterations + 1
    /\ n_oracle' = n_oracle + 1
    /\ UNCHANGED <<mode, agents, starting_agent_name, max_iterations, printed,
                   dvars, rvars, bvars, hvars, tvars, gvars>>

\* ---- run_agent_workflow_programmatic -------------------------------------

\* if not agents: raise ValueError; the cursor, the buffer with the initial
\* user prompt, the counter
PStart ==
    /\ mode = "programmatic" /\ pc = "start"
    /\ IF agents = <<>>
       THEN /\ pc' = "done" /\ stop' = "ValueError"
            /\ UNCHANGED <<current_agent_name, messages>>
       ELSE /\ pc' = "head" /\ UNCHANGED stop
            /\ current_agent_name' =
                 IF starting_agent_name # "" THEN starting_agent_name ELSE agents[1]
            /\ messages' = <<UserMessage(InitialPrompt)>>
    /\ last' = [op |-> "start"]
    /\ UNCHANGED <<mode, agents, starting_agent_name, max_iterations,
                   iterations, printed, n_oracle, dvars, rvars, bvars, hvars, tvars,
                   gvars>>

\* while iterations < max_iterations fails: the report after the loop
PCap ==
    /\ mode = "programmatic" /\ pc = "head"
    /\ iterations >= max_iterations
    /\ printed' = Append(printed, "max_iterations")
    /\ pc' = "done" /\ stop' = "cap"
    /\ last' = [op |-> "cap", before |-> messages]
    /\ UNCHANGED <<mode, agents, starting_agent_name, max_iterations,
                   current_agent_name, messages, iterations, n_oracle,
                   dvars, rvars, bvars, hvars, tvars, gvars>>

\* if not agent: print, break; then the report after the loop
PNotFound ==
    /\ mode = "programmatic" /\ pc = "head"
    /\ iterations < max_iterations
    /\ ~Registered(current_agent_name)
    /\ printed' = printed \o <<"agent_not_found", "workflow_completed">>
    /\ pc' = "done" /\ stop' = "not_found"
    /\ last' = [op |-> "not_found", before |-> messages]
    /\ UNCHANGED <<mode, agents, starting_agent_name, max_iterations,
                   current_agent_name, messages, iterations, n_oracle,
                   dvars, rvars, bvars, hvars, tvars, gvars>>

CompletedNever(agent, out, msgs) == FALSE

CompletedIgnoringRole(agent, out, msgs) == out.next = agent /\ msgs # <<>>

\* The turn ends the programmatic loop: the agent returned itself, the last
\* message is an assistant message and no new message mentions a transfer.
CompletedItsTask(agent, out, msgs) ==
    /\ out.next = agent
    /\ msgs # <<>>
    /\ LastRole(msgs) = "assistant"
    /\ ~AnyTransfer(out.new)

\* One pass of the while loop with an agent found: run it inside the try;
\* an exception is reported and breaks; else extend the buffer, break when
\* the agent completed its task, else adopt the cursor and count the pass.
PTurn(response) ==
    /\ mode = "programmatic" /\ pc = "head"
    /\ iterations < max_iterations
    /\ Registered(current_agent_name)
    /\ \E out \in {Run(current_agent_name, messages, response)} :
           /\ last' = RunRecord(current_agent_name, messages, response, out)
           /\ IF out.raised
              THEN /\ printed' = printed \o <<"error_running", "workflow_completed">>
                   /\ pc' = "done" /\ stop' = "exception"
                   /\ messages' = out.received
                   /\ UNCHANGED <<current_agent_name, iterations>>
              ELSE /\ messages' = out.received \o out.new
                   /\ IF CompletedItsTask(current_agent_name, out, messages')
                      THEN /\ printed' = printed \o <<"completed_its_task", "workflow_completed">>
                           /\ pc' = "done" /\ stop' = "no_handoff"
                           /\ UNCHANGED <<current_agent_name, iterations>>
                      ELSE /\ current_agent_name' = out.next
                           /\ iterations' = iterations + 1
                           /\ UNCHANGED <<pc, stop, printed>>
    /\ n_oracle' = n_oracle + 1
    /\ UNCHANGED <<mode, agents, starting_agent_name, max_iterations,
                   dvars, rvars, bvars, hvars, tvars, gvars>>

\* ---- the bridge: run_agent_workflow, submit_prompt, reset_system ---------

\* max_iterations = 30
BridgeMaxIterations == 30
\* if no_handoff_count >= 3: break
NoHandoffLimit == 3

\* A background task that was never added, and the locals of one that
\* ended.
FreeSlot ==
    [pc |-> "free", messages |-> <<>>, current_agent_name |-> "",
     iterations |-> 0, no_handoff_count |-> 0, ended |-> ""]
\* how: "no_agents", "not_found", "exception", "no_handoff" or "cap"
Ended(how) == [FreeSlot EXCEPT !.pc = "done", !.ended = how]

InitBridge ==
    /\ mode = "bridge"
    /\ agents \in {<<>>, create_coding_agents}
    /\ starting_agent_name = "" /\ max_iterations = 0 /\ pc = ""
    /\ current_agent_name = "" /\ messages = <<>> /\ iterations = 0
    /\ stop = "" /\ printed = <<>> /\ last = [op |-> ""] /\ n_oracle = 0
    /\ workflow_status = "idle" /\ workflow_running = FALSE
    /\ current_conversation = <<>>
    /\ wf = [t \in 1..MaxWorkflows |-> FreeSlot]
    /\ IdleDispatch /\ IdleRun /\ IdleHandoff /\ IdleTasks /\ IdleRegistry

\* submit_prompt while workflow_running, or with no agents available: an
\* error response, nothing is started
SubmitRefused ==
    /\ mode = "bridge"
    /\ workflow_running \/ agents = <<>>
    /\ last' = [op |-> "submit_refused"]
    /\ UNCHANGED <<mode, agents, starting_agent_name, max_iterations, pc,
                   current_agent_name, messages, iterations, stop, printed,
                   n_oracle, dvars, rvars, bvars, hvars, tvars, gvars>>

\* submit_prompt: workflow_status = "planning", and run_agent_workflow is
\* added as a background task
Submit(t) ==
    /\ mode = "bridge"
    /\ ~workflow_running /\ agents # <<>>
    /\ wf[t].pc = "free"
    /\ \A u \in 1..(t - 1) : wf[u].pc # "free"
    /\ workflow_status' = "planning"
    /\ wf' = [wf EXCEPT ![t].pc = "queued"]
    /\ last' = [op |-> "submit", t |-> t]
    /\ UNCHANGED <<mode, agents, starting_agent_name, max_iterations, pc,
                   current_agent_name, messages, iterations, stop, printed,
                   n_oracle, dvars, rvars, hvars, tvars, workflow_running,
                   current_conversation, gvars>>

\* run_agent_workflow up to the while loop: the flags, the cleared stores,
\* "No agents available", the buffer with the user's prompt
BStart(t) ==
    /\ mode = "bridge"
    /\ wf[t].pc = "queued"
    /\ IF agents = <<>>
       THEN /\ workflow_status' = "error"
            /\ workflow_running' = FALSE
            /\ current_conversation' = <<>>
            /\ wf' = [wf EXCEPT ![t] = Ended("no_agents")]
       ELSE /\ workflow_status' = "coding"
            /\ workflow_running' = TRUE
            /\ current_conversation' = <<UserMessage(InitialPrompt)>>
            /\ wf' = [wf EXCEPT ![t] =
                        [pc |-> "loop", messages |-> <<UserMessage(InitialPrompt)>>,
                         current_agent_name |-> "Orchestrator Agent",
                         iterations |-> 0, no_handoff_count |-> 0,
                         ended |-> ""]]
    /\ tasks_store' = <<>>
    /\ tasks_extracted' = [tasks_extracted EXCEPT ![t] = FALSE]
    /\ store_source' = [by |-> 0, from |-> 0]
    /\ last' = [op |-> "bridge_start", t |-> t]
    /\ UNCHANGED <<mode, agents, starting_agent_name, max_iterations, pc,
                   current_agent_name, messages, iterations, stop, printed,
                   n_oracle, dvars, rvars, hvars, task_file, task_out, writers,
                   file_writer, gvars>>

\* if not agent: print, break; then workflow_status = "completed" and the
\* finally block
BNotFound(t) ==
    /\ mode = "bridge"
    /\ wf[t].pc = "loop"
    /\ ~Registered(wf[t].current_agent_name)
    /\ printed' = Append(printed, "agent_not_found")
    /\ workflow_status' = "completed"
    /\ workflow_running' = FALSE
    /\ wf' = [wf EXCEPT ![t] = Ended("not_found")]
    /\ last' = [op |-> "bridge_not_found", t |-> t]
    /\ UNCHANGED <<mode, agents, starting_agent_name, max_iterations, pc,
                   current_agent_name, messages, iterations, stop,
                   n_oracle, dvars, rvars, hvars, tvars, current_conversation,
                   gvars>>

NoHandoffCountNeverReset(next_agent_name, agent_name, no_handoff_count) ==
    IF next_agent_name = agent_name THEN no_handoff_count + 1 ELSE no_handoff_count

\* if next_agent_name == current_agent_name: no_handoff_count += 1
\* else: no_handoff_count = 0
NoHandoffCount(next_agent_name, agent_name, no_handoff_count) ==
    IF next_agent_name = agent_name THEN no_handoff_count + 1 ELSE 0

BridgeContinuesBelowStreak(no_handoff_count, n) == no_handoff_count < NoHandoffLimit

\* The loop goes on after a pass: no break at no_handoff_count >= 3, and
\* the while condition iterations < max_iterations holds.
BridgeContinues(no_handoff_count, n) ==
    no_handoff_count < NoHandoffLimit /\ n < BridgeMaxIterations

\* One pass of the while loop with an agent found.  An exception of run
\* reaches the handler of run_agent_workflow: workflow_status = "error" and
\* the finally block.  Else both buffers are extended, the pass is counted,
\* the streak of turns without handoff is counted or reset, the cursor is
\* adopted, and the loop ends (workflow_status = "completed", the finally
\* block) when the streak reaches 3 or the counter reaches 30.  No response
\* of these runs calls create_task_list and no task file exists, so
\* tasks_file.exists() is false in every pass and tasks_store is not loaded.
BTurn(t, response) ==
    /\ mode = "bridge"
    /\ wf[t].pc = "loop"
    /\ Registered(wf[t].current_agent_name)
    /\ n_oracle < MaxBridgeTurns
    /\ \E w \in {wf[t]} :
       \E out \in {Run(w.current_agent_name, w.messages, response)} :
       \E streak \in {NoHandoffCount(out.next, w.current_agent_name,
                                      w.no_handoff_count)} :
           /\ last' = [op |-> "bridge_run", t |-> t,
                       agent |-> w.current_agent_name, before |-> w.messages,
                       response |-> response, out |-> out]
           /\ IF out.raised
              THEN /\ workflow_status' = "error"
                   /\ workflow_running' = FALSE
                   /\ wf' = [wf EXCEPT ![t] = Ended("exception")]
                   /\ UNCHANGED current_conversation
              ELSE /\ current_conversation' = current_conversation \o out.new
                   /\ IF ~BridgeContinues(streak, w.iterations + 1)
                      THEN /\ workflow_status' = "completed"
                           /\ workflow_running' = FALSE
                           /\ wf' = [wf EXCEPT ![t] =
                                       Ended(IF streak >= NoHandoffLimit
                                             THEN "no_handoff" ELSE "cap")]
                      ELSE /\ wf' = [wf EXCEPT ![t] =
                                       [pc |-> "loop",
                                        messages |-> out.received \o out.new,
                                        current_agent_name |-> out.next,
                                        iterations |-> w.iterations + 1,
                                        no_handoff_count |-> streak,
                                        ended |-> ""]]
                           /\ UNCHANGED <<workflow_status, workflow_running>>
    /\ n_oracle' = n_oracle + 1
    /\ UNCHANGED <<mode, agents, starting_agent_name, max_iterations, pc,
                   current_agent_name, messages, iterations, stop, printed,
                   dvars, rvars, hvars, tvars, gvars>>

\* reset_system: the flags and the stores, then every item of
\* .agent_workspace is deleted, the task file among them
Reset ==
    /\ mode = "bridge"
    /\ workflow_running' = FALSE
    /\ workflow_status' = "idle"
    /\ current_conversation' = <<>>
    /\ tasks_store' = <<>>
    /\ store_source' = [by |-> 0, from |-> 0]
    /\ task_file' = NoFile
    /\ file_writer' = 0
    /\ last' = [op |-> "reset"]
    /\ UNCHANGED <<mode, agents, starting_agent_name, max_iterations, pc,
                   current_agent_name, messages, iterations, stop, printed,
                   n_oracle, dvars, rvars, hvars, task_out, writers,
                   tasks_extracted, wf, gvars>>

----------------------------------------------------------------------------

Init == InitLoop \/ InitBridge

Next ==
    \/ IStart
    \/ ICap
    \/ INotFound
    \/ IHead
    \/ \E u \in Inputs : IQuit(u)
    \/ \E u \in Inputs : IEmpty(u)
    \/ \E u \in Inputs : IUser(u)
    \/ \E response \in LoopResponses : IRun(response)
    \/ PStart
    \/ PCap
    \/ PNotFound
    \/ \E response \in LoopResponses : PTurn(response)
    \/ SubmitRefused
    \/ \E t \in 1..MaxWorkflows : Submit(t)
    \/ \E t \in 1..MaxWorkflows : BStart(t)
    \/ \E t \in 1..MaxWorkflows : BNotFound(t)
    \/ \E t \in 1..MaxWorkflows, response \in BridgeResponses : BTurn(t, response)
    \/ Reset

Spec == Init /\ [][Next]_vars

----------------------------------------------------------------------------
\* Claims about the loops (checked under Spec).

\* The conversation buffers: the one of run_agent_loop or of
\* run_agent_workflow_programmatic, and the one of each bridge workflow.
Buffers == {messages} \cup {wf[t].messages : t \in DOMAIN wf}

\* The steps in which a loop called agent.run.
RunOps == {"run", "bridge_run"}

\* name is a key of the agent dictionary.
IsKey(name) == name \in {agents[i] : i \in DOMAIN agents}

\* The tool message at i answers a call recorded in the nearest preceding
\* assistant message, and only tool messages stand between the two.
Answered(msgs, i) ==
    \E j \in 1..(i - 1) :
        /\ msgs[j].role = "assistant"
        /\ \A k \in (j + 1)..(i - 1) : msgs[k].role = "tool"
        /\ \E c \in 1..Len(msgs[j].tool_calls) :
              msgs[j].tool_calls[c].id = msgs[i].tool_call_id

\* C3: in every reachable state of a conversation buffer (interactive loop,
\* programmatic loop, bridge workflow) each tool message's tool_call_id is
\* the id of a call recorded in the nearest preceding assistant message of
\* the buffer, and no user message stands between the two.
C3_ToolMessagesAnswerCalls ==
    \A b \in Buffers : \A i \in 1..Len(b) : b[i].role = "tool" => Answered(b, i)

\* C3 witness: a buffer holds two tool messages of different turns that
\* carry the same id, so that only the nearest assistant message tells
\* which call each answers.
C3_Witness ==
    \E b \in Buffers : \E i, k \in 1..Len(b) :
        /\ i + 1 < k
        /\ b[i].role = "tool" /\ b[k].role = "tool"
        /\ b[i].tool_call_id = b[k].tool_call_id
        /\ b[k - 1].role = "assistant"

\* C4: the buffer of a loop is append-only: across every step of
\* run_agent_loop, run_agent_workflow_programmatic and the bridge's
\* run_agent_workflow the buffer before the step is a prefix of the buffer
\* after it.
C4_AppendOnly ==
    [][/\ IsPrefix(messages, messages')
       /\ \A t \in DOMAIN wf :
            (wf[t].pc = "loop" /\ wf'[t].pc = "loop") =>
                IsPrefix(wf[t].messages, wf'[t].messages)]_vars

\* C4 witness: a turn returned new messages to a loop whose buffer already
\* held three messages or more, and the buffer is now the old one followed
\* by the new messages.
C4_Witness ==
    /\ last.op \in RunOps
    /\ ~last.out.raised
    /\ Len(last.before) >= 3
    /\ last.out.new # <<>>
    /\ \E b \in Buffers : b = last.before \o last.out.new

\* C5: run leaves the list it receives unchanged; the oracle is sent exactly
\* one system message, holding the agent's instructions, followed by the
\* full received history; the system message is not among the returned
\* messages; no system message is ever in a conversation buffer.  (The
\* agent keeps no conversation state: the outcome of run is a function of
\* the agent, the received list and the oracle's response.)
C5_RunKeepsNothing ==
    /\ last.op \in RunOps =>
        /\ last.out.request =
             <<[role |-> "system", content |-> Instructions(last.agent),
                tool_calls |-> <<>>, tool_call_id |-> Absent]>> \o last.before
        /\ last.out.received = last.before
        /\ \A i \in 1..Len(last.out.new) : last.out.new[i].role # "system"
    /\ \A b \in Buffers : \A i \in 1..Len(b) : b[i].role # "system"

\* C5 witness: run was called on a history of three messages or more and
\* returned an assistant message and a tool message.
C5_Witness ==
    /\ last.op \in RunOps
    /\ Len(last.before) >= 3
    /\ Len(last.out.new) >= 2
    /\ Len(last.out.request) = 1 + Len(last.before)

\* func(**args) raised for the tool call tc: the capability was found, the
\* arguments parsed, and the call raised (binding the arguments or in the
\* body).
CallRaised(agent, tc) ==
    /\ Lookup(agent, tc.name) # 0
    /\ JsonLoads(tc.arguments).ok
    /\ InvokeTry(agent, tc.name, tc.arguments, tc.env).exc

\* The body of the capability ran for the tool call tc and raised.
BodyRaised(agent, tc) ==
    /\ CallRaised(agent, tc)
    /\ Ran(agent, tc.name, tc.arguments) # ""

\* The turn of the last step completed although its i-th call raised: run
\* returned, the i-th tool message starts with "Error executing {name}: ",
\* and every later call was dispatched and answered in order.
TurnSurvives(i) ==
    LET tcs == last.response.tool_calls
        new == last.out.new
    IN  /\ ~last.out.raised
        /\ Len(new) = 1 + Len(tcs)
        /\ new[1 + i].role = "tool"
        /\ IsPrefix(<<"Error executing ", tcs[i].name, ": ">>, new[1 + i].content)
        /\ \A k \in (i + 1)..Len(tcs) :
            /\ new[1 + k].role = "tool"
            /\ new[1 + k].tool_call_id = tcs[k].id
            /\ new[1 + k].content =
                 invoke_function(last.agent, tcs[k].name, tcs[k].arguments,
                                 tcs[k].env).text
            /\ last.out.ran[k] = Ran(last.agent, tcs[k].name, tcs[k].arguments)

\* The loop took the turn of the last step as any other: the new messages
\* are in the buffer and the loop is back at its head, or (bridge) it ended
\* by its streak or iteration limit; it did not end by an exception.
LoopWentOn ==
    IF last.op = "run"
    THEN pc = "head" /\ stop = "" /\ messages = last.before \o last.out.new
    ELSE \/ /\ wf[last.t].pc = "loop"
            /\ wf[last.t].messages = last.before \o last.out.new
         \/ /\ wf[last.t].pc = "done"
            /\ wf[last.t].ended \in {"no_handoff", "cap"}

\* A further turn follows the last step: the loop is at its head, the
\* iteration limit is not reached and the cursor names an agent.
FurtherTurn ==
    IF last.op = "run"
    THEN pc = "head" /\ iterations < max_iterations /\ IsKey(current_agent_name)
    ELSE wf[last.t].pc = "loop" /\ IsKey(wf[last.t].current_agent_name)

\* C8 as stated: when a capability raises during a turn, the tool message
\* starts with "Error executing {name}:", the remaining calls are
\* dispatched, run returns normally, and the loop continues with a further
\* turn.
C8_Original ==
    (last.op \in RunOps /\ ~last.response.fails) =>
        \A i \in 1..Len(last.response.tool_calls) :
            CallRaised(last.agent, last.response.tool_calls[i]) =>
                TurnSurvives(i) /\ FurtherTurn

\* C8 amended: when a capability raises during a turn, the tool message
\* starts with "Error executing {name}: ", the remaining calls are
\* dispatched in order, run returns normally and the loop does not abort:
\* it appends the turn and goes back to its head.  A further turn follows
\* only if no termination condition holds there (iteration limit, cursor
\* adopted from the results naming no agent, the bridge's streak).
C8_ErrorTurnCompletes ==
    (last.op \in RunOps /\ ~last.response.fails) =>
        \A i \in 1..Len(last.response.tool_calls) :
            CallRaised(last.agent, last.response.tool_calls[i]) =>
                TurnSurvives(i) /\ LoopWentOn

\* C8 witness: the body of the first of two requested capabilities raised,
\* the second was dispatched and returned its text, and a further turn
\* follows.
C8_Witness ==
    /\ last.op = "run"
    /\ Len(last.response.tool_calls) = 2
    /\ BodyRaised(last.agent, last.response.tool_calls[1])
    /\ last.out.new[3].content = <<"ok">>
    /\ FurtherTurn

\* C9: when the oracle call of a turn fails, run raises before it produces
\* a message or dispatches a tool; the programmatic loop stops with its
\* buffer as it was before the turn; the bridge workflow ends with
\* workflow_status "error".
C9_OracleFailure ==
    (last.op \in RunOps /\ last.response.fails) =>
        /\ last.out.raised
        /\ last.out.new = <<>>
        /\ last.out.ran = <<>>
        /\ mode = "programmatic" =>
            pc = "done" /\ stop = "exception" /\ messages = last.before
        /\ mode = "bridge" =>
            /\ workflow_status = "error"
            /\ wf[last.t].pc = "done" /\ wf[last.t].ended = "exception"

\* C9 witness: the oracle call failed in a later turn of the programmatic
\* loop, whose buffer held three messages or more.
C9_Witness ==
    /\ mode = "programmatic"
    /\ last.op = "run"
    /\ last.response.fails
    /\ Len(last.before) >= 3
    /\ stop = "exception"

LoopModes == {"interactive", "programmatic"}

\* No loop calls run for a cursor that names no agent, and neither loop
\* asks for input with such a cursor.
NeverRunsUnknown ==
    /\ last.op \in RunOps => IsKey(last.agent)
    /\ (mode \in LoopModes /\ pc \in {"input", "run"}) => IsKey(current_agent_name)

\* With an empty agent set both loops fail before a message is appended or
\* an oracle call made.
EmptySetFails ==
    (mode \in LoopModes /\ agents = <<>> /\ pc # "start") =>
        /\ pc = "done" /\ stop = "ValueError"
        /\ messages = <<>> /\ n_oracle = 0 /\ printed = <<>>

\* The loop reported that the agent was not found.
ReportedNotFound == \E i \in 1..Len(printed) : printed[i] = "agent_not_found"

\* C10 as stated: a loop never calls run for an unregistered cursor; with
\* an empty agent set both loops fail first; and whenever a loop has ended
\* with a cursor that is no key of the agent dictionary, it reported the
\* agent-not-found error.
C10_Original ==
    /\ NeverRunsUnknown
    /\ EmptySetFails
    /\ (mode \in LoopModes /\ pc = "done" /\ agents # <<>>
        /\ ~IsKey(current_agent_name)) =>
            stop = "not_found" /\ ReportedNotFound

\* What holds in every state, for C10 amended.
C10_State ==
    /\ NeverRunsUnknown
    /\ EmptySetFails
    /\ (mode \in LoopModes /\ last.op = "not_found") =>
        /\ pc = "done" /\ stop = "not_found" /\ ReportedNotFound
        /\ messages = last.before
        /\ ~IsKey(current_agent_name)
    /\ (mode \in LoopModes /\ pc = "done" /\ agents # <<>>
        /\ ~IsKey(current_agent_name)) =>
            /\ stop \in {"not_found", "cap"}
            /\ stop = "not_found" <=> iterations < max_iterations
            /\ stop = "not_found" <=> ReportedNotFound

\* What holds of every step, for C10 amended: at the head of the loop with
\* a cursor that names no agent, the step ends the loop, with the buffer
\* as it was and no oracle call.
C10_Step ==
    (mode \in LoopModes /\ pc = "head" /\ ~IsKey(current_agent_name)) =>
        pc' = "done" /\ messages' = messages /\ n_oracle' = n_oracle

\* C10 amended: a loop never calls run, and never asks for input, for a
\* cursor that names no registered agent; with an empty agent set both
\* loops fail before a message is appended or an oracle call made; with a
\* cursor (initial or adopted) that is no key of the agent dictionary the
\* loop stops at once with the buffer as it was, and it reports the
\* agent-not-found error exactly when the iteration limit is not reached
\* (at the limit it reports the limit instead, without a lookup).
C10_UnknownCursorStops == []C10_State /\ [][C10_Step]_vars

\* C10 witness: the cursor adopted from a tool result names no agent, and
\* the loop reported it and stopped with the buffer of the turns so far.
C10_Witness ==
    /\ mode \in LoopModes
    /\ last.op = "not_found"
    /\ current_agent_name # starting_agent_name
    /\ n_oracle >= 1
    /\ messages # <<>>

\* ---- the interactive loop: input, quit, the cap ---------------------------

Interactive == mode = "interactive"

EndsWith(msgs, roles) == msgs # <<>> /\ msgs[Len(msgs)].role \in roles

C11_State ==
    Interactive =>
        /\ pc = "input" => (messages = <<>> \/ EndsWith(messages, {"assistant"}))
        /\ pc = "run" => EndsWith(messages, {"user", "tool"})
        /\ last.op = "run" => EndsWith(last.before, {"user", "tool"})

C11_Step ==
    (Interactive /\ pc = "head" /\ pc' \in {"input", "run"}) =>
        (pc' = "input" <=>
            (messages = <<>> \/ EndsWith(messages, {"assistant"})))

\* C11: the interactive loop asks for input before an agent run exactly when
\* the buffer is empty or its last message is an assistant message; an agent
\* is run only on a non-empty buffer ending with a user or a tool message, so
\* after a turn that ended with tool messages the cursor's agent is run with
\* no input in between.
C11_InputIffEmptyOrAssistant == []C11_State /\ [][C11_Step]_vars

C11_Witness ==
    /\ Interactive /\ last.op = "run" /\ ~last.out.raised
    /\ last.agent = "B" /\ EndsWith(last.before, {"tool"})

QuitInputs == {"quit", " EXIT "}

BlankInputs == {"", "  "}

C12_Step ==
    (/\ Interactive /\ pc = "input" /\ last'.op = "input"
     /\ last'.text \in QuitInputs \cup BlankInputs) =>
        /\ messages' = messages /\ n_oracle' = n_oracle /\ pc' # "run"
        /\ current_agent_name' = current_agent_name
        /\ iterations' = iterations
        /\ last'.text \in QuitInputs => (pc' = "done" /\ stop' = "quit")
        /\ last'.text \in BlankInputs => (pc' = "head" /\ stop' = stop)

C12_State ==
    (Interactive /\ pc = "head" /\ last.op = "input"
     /\ last.text \in BlankInputs) =>
        /\ iterations < max_iterations /\ IsKey(current_agent_name)
        /\ (messages = <<>> \/ EndsWith(messages, {"assistant"}))

\* C12: in the interactive loop the input "quit" or "exit", in any letter
\* case and with surrounding whitespace, ends the loop, and an empty input
\* leads to the prompt again; neither appends a message, runs an agent, moves
\* the cursor or advances the iteration counter.
C12_QuitAndEmptyChangeNothing == []C12_State /\ [][C12_Step]_vars

C12_Witness ==
    /\ Interactive /\ last.op = "input" /\ last.text = " EXIT "
    /\ stop = "quit" /\ iterations >= 1 /\ messages # <<>>

C13_State ==
    Interactive =>
        /\ n_oracle <= max_iterations /\ iterations <= max_iterations
        /\ iterations >= max_iterations =>
              /\ pc \in {"start", "head", "done"}
              /\ pc = "done" => stop \in {"cap", "ValueError"}
        /\ last.op = "cap" =>
              /\ pc = "done" /\ stop = "cap" /\ messages = last.before
              /\ iterations = max_iterations
              /\ printed # <<>> /\ printed[Len(printed)] = "max_iterations"

C13_Step ==
    (Interactive /\ pc = "head" /\ iterations >= max_iterations) =>
        /\ pc' = "done" /\ stop' = "cap" /\ messages' = messages
        /\ printed' = Append(printed, "max_iterations")

\* C13: the interactive loop makes at most max_iterations agent runs; once
\* that many are made it stops, reports that the maximum was reached as a
\* printed message and not as an exception, and returns the buffer built so
\* far.
C13_CapStopsAndReports == []C13_State /\ [][C13_Step]_vars

C13_Witness ==
    /\ Interactive /\ last.op = "cap" /\ max_iterations >= 2
    /\ n_oracle = max_iterations /\ Len(messages) >= 3

\* ---- the interactive loop under fair scheduling ---------------------------

InitInteractive == InitLoop /\ mode = "interactive"

NextInteractive ==
    \/ IStart
    \/ ICap
    \/ INotFound
    \/ IHead
    \/ \E u \in Inputs : IQuit(u)
    \/ \E u \in Inputs : IEmpty(u)
    \/ \E u \in Inputs : IUser(u)
    \/ \E response \in LoopResponses : IRun(response)

\* run_agent_loop is one sequential loop: while it has not returned, its next
\* statement is executed, every input() is answered and every oracle call
\* returns or raises.
SpecInteractive ==
    InitInteractive /\ [][NextInteractive]_vars /\ WF_vars(NextInteractive)

BlankInput == \E u \in Inputs : IEmpty(u)

C14_Original == <>(pc = "done")

\* C14: the interactive loop ends (by quit, by an abort or by the iteration
\* cap) for every sequence of inputs and of oracle answers in which empty
\* inputs are not given forever.
C14_EndsUnlessBlankForever == ([]<><<BlankInput>>_vars) \/ <>(pc = "done")

C14_Witness ==
    /\ Interactive /\ pc = "done" /\ stop \in {"quit", "cap"}
    /\ n_oracle >= 2 /\ Len(printed) = 1

\* ---- the free-running loops: the stop for lack of a handoff ---------------

Programmatic == mode = "programmatic"

\* The last run returned its own agent with one plain assistant message that
\* mentions no transfer.
PlainSelfTurn ==
    /\ last.op = "run" /\ ~last.out.raised
    /\ last.out.next = last.agent
    /\ last.response.tool_calls = <<>>
    /\ ~HasTransfer(last.response.content)

Roles(msgs) == [i \in 1..Len(msgs) |-> msgs[i].role]

\* Agents {A (handoff to B), B (no tools)} started at A: A's first turn
\* requested transfer_to_b, then B answered in plain text and the loop
\* stopped for lack of a handoff.
ScenarioTrace ==
    /\ Programmatic /\ agents = ScenarioAgents /\ starting_agent_name = ""
    /\ pc = "done" /\ stop = "no_handoff" /\ n_oracle = 2
    /\ Len(messages) >= 2 /\ Len(messages[2].tool_calls) = 1
    /\ messages[2].tool_calls[1].name = "transfer_to_b"
    /\ last.op = "run" /\ last.agent = "B" /\ last.response.tool_calls = <<>>

C15_Original ==
    (Programmatic /\ stop = "no_handoff") =>
        /\ n_oracle >= 3
        /\ ScenarioTrace => Len(messages) = 6

\* C15: the programmatic loop stops for lack of a handoff at the first turn
\* in which the agent returned itself with a plain assistant message that
\* mentions no transfer, and only then; with agents {A (handoff to B), B (no
\* tools)} it appends the user message, runs A (assistant and tool message),
\* moves the cursor to B, runs B once and returns 4 messages.
C15_StopsAtFirstPlainTurn ==
    Programmatic =>
        /\ PlainSelfTurn =>
              /\ pc = "done" /\ stop = "no_handoff"
              /\ messages = last.before \o last.out.new
        /\ stop = "no_handoff" => PlainSelfTurn
        /\ ScenarioTrace =>
              /\ Roles(messages) = <<"user", "assistant", "tool", "assistant">>
              /\ current_agent_name = "B"

C15_Witness == ScenarioTrace /\ iterations = 1

PlainLast(msgs) ==
    /\ msgs # <<>>
    /\ msgs[Len(msgs)].role = "assistant"
    /\ msgs[Len(msgs)].tool_calls = <<>>

\* The last bridge turn ended its workflow for lack of a handoff.
BridgeNoHandoffStop ==
    /\ mode = "bridge" /\ last.op = "bridge_run"
    /\ wf[last.t].ended = "no_handoff"

C16_Original ==
    /\ (Programmatic /\ stop = "no_handoff") => PlainLast(messages)
    /\ BridgeNoHandoffStop => PlainLast(last.before \o last.out.new)

\* C16: when the programmatic loop stops for lack of a handoff the last
\* message of the buffer is a plain assistant message; when the bridge's loop
\* does, the last turn returned its own agent after at least three oracle
\* calls, and the buffer ends with that turn's plain assistant message or,
\* when the turn had tool calls, with its last tool message.
C16_NoHandoffStopLastMessage ==
    /\ (Programmatic /\ stop = "no_handoff") => PlainLast(messages)
    /\ BridgeNoHandoffStop =>
          /\ last.out.next = last.agent /\ ~last.out.raised
          /\ n_oracle >= NoHandoffLimit
          /\ IF last.response.tool_calls = <<>>
             THEN PlainLast(last.before \o last.out.new)
             ELSE EndsWith(last.before \o last.out.new, {"tool"})

C16_Witness == BridgeNoHandoffStop /\ last.response.tool_calls # <<>>

----------------------------------------------------------------------------
\* SpecHandoff: re.search(HANDOFF_PATTERN, result) on every text of up to
\* MaxLen pieces: the literal, a '.', a line break, other text.

MaxLen == 4

HandoffPieces == {TR, DOT, NL, "x"}

SeqsUpTo(S, n) == UNION {[1..k -> S] : k \in 0..n}

InitHandoff ==
    /\ h_text \in SeqsUpTo(HandoffPieces, MaxLen)
    /\ h_out = NoOutcome
    /\ k_target = <<>> /\ k_made = <<>> /\ k_out = NoOutcome
    /\ IdleDispatch /\ IdleRun /\ IdleLoops /\ IdleBridge /\ IdleTasks /\ IdleRegistry

\* match = re.search(HANDOFF_PATTERN, result)
Search ==
    /\ ~h_out.done
    /\ h_out' = [done |-> TRUE, match |-> HandoffSearch(h_text)]
    /\ UNCHANGED <<h_text, k_target, k_made, k_out, tvars, dvars, rvars, lvars, bvars,
                   gvars>>

NextHandoff == Search

SpecHandoff == InitHandoff /\ [][NextHandoff]_vars

\* The positions of the literal "Transferred to: " in s.
Occurrences(s) == {i \in 1..Len(s) : s[i] = TR}

\* The first position from i on that holds one of the pieces, or the end.
FirstOf(s, i, pieces) ==
    Min({j \in i..Len(s) : s[j] \in pieces} \cup {Len(s) + 1})

\* The text between the first occurrence of the literal and the first
\* following '.', or the end of s when no '.' follows.
FirstToDot(s) ==
    SubSeq(s, Min(Occurrences(s)) + 1,
           FirstOf(s, Min(Occurrences(s)) + 1, {DOT}) - 1)

\* The occurrences whose line runs to a '.', to the end of s, or to a line
\* break that is the last character of s.
Usable(s) ==
    {i \in Occurrences(s) :
        \/ FirstOf(s, i + 1, {DOT, NL}) >= Len(s)
        \/ s[FirstOf(s, i + 1, {DOT, NL})] = DOT}

C17_Original ==
    h_out.done =>
        IF Occurrences(h_text) = {} THEN ~h_out.match.found
        ELSE /\ h_out.match.found
             /\ h_out.match.target = FirstToDot(h_text)

\* C17: a text without the literal "Transferred to: " yields no handoff; in
\* a text without line breaks the handoff is exactly the text between the
\* first occurrence of the literal and the first following '.', or the end
\* of the text when no '.' follows; in general the occurrence used is the
\* first one whose line runs to a '.', to the end of the text or to a line
\* break ending the text, and the handoff is the text from it to that point;
\* there is no handoff when no occurrence is of that kind.
\* "Transferred to: Coder Agent. Proceeding." gives "Coder Agent".
C17_FirstUsableOccurrence ==
    /\ HandoffSearch(<<TR, "Coder Agent", DOT, " Proceeding", DOT>>)
         = [found |-> TRUE, target |-> <<"Coder Agent">>]
    /\ h_out.done =>
          /\ Occurrences(h_text) = {} => ~h_out.match.found
          /\ (Occurrences(h_text) # {} /\ \A i \in 1..Len(h_text) : h_text[i] # NL) =>
                /\ h_out.match.found
                /\ h_out.match.target = FirstToDot(h_text)
          /\ h_out.match.found <=> Usable(h_text) # {}
          /\ h_out.match.found =>
                h_out.match.target =
                    SubSeq(h_text, Min(Usable(h_text)) + 1,
                           FirstOf(h_text, Min(Usable(h_text)) + 1, {DOT, NL}) - 1)

C17_Witness ==
    /\ h_out.done /\ h_out.match.found /\ Len(h_text) = 4
    /\ h_text[1] = TR /\ h_text[2] = NL /\ h_text[3] = TR
    /\ h_out.match.target = <<"x">>

----------------------------------------------------------------------------
\* SpecFactory: create_handoff_function called up to MaxMade times with one
\* target name of up to MaxNameLen pieces, and the returned functions
\* called.

MaxNameLen == 3

MaxMade == 2

NamePieces == {"Coder", " ", "Agent", "b", DOT, NL}

InitFactory ==
    /\ k_target \in SeqsUpTo(NamePieces, MaxNameLen)
    /\ k_made = <<>> /\ k_out = NoOutcome
    /\ h_text = <<>> /\ h_out = NoOutcome
    /\ IdleDispatch /\ IdleRun /\ IdleLoops /\ IdleBridge /\ IdleTasks /\ IdleRegistry

\* handoff_func = create_handoff_function(target_agent_name): every call
\* defines a new function object (id: its identity).
Create ==
    /\ Len(k_made) < MaxMade
    /\ k_made' = Append(k_made, [id |-> Len(k_made) + 1,
                                 func |-> create_handoff_function(k_target)])
    /\ UNCHANGED <<k_target, k_out, h_text, h_out, tvars, dvars, rvars, lvars, bvars,
                   gvars>>

\* func(**json.loads(arguments)) on the i-th function returned
CallMade(i, arguments) ==
    /\ i \in 1..Len(k_made)
    /\ k_out' = [done |-> TRUE, id |-> k_made[i].id, arguments |-> arguments,
                 result |-> Call(k_made[i].func, JsonLoads(arguments), E_OK)]
    /\ UNCHANGED <<k_target, k_made, h_text, h_out, tvars, dvars, rvars, lvars, bvars,
                   gvars>>

\* The text _invoke_function returns for a request of function_name in a
\* registry that holds the functions made.
MadeResult(functions, function_name, arguments) ==
    ExceptException(function_name,
                    TryBlock(functions, FirstNamed(functions, function_name),
                             function_name, JsonLoads(arguments), E_OK))

\* A turn of run, on an agent named "Host" whose registry holds the
\* functions made, for a response with one tool call that names the i-th
\* of them: the dispatch, then the search of the result for the pattern.
RunMade(i, arguments) ==
    /\ i \in 1..Len(k_made)
    /\ \E functions \in {[j \in 1..Len(k_made) |-> k_made[j].func]} :
       \E result \in {MadeResult(functions, k_made[i].func.name, arguments)} :
          k_out' = [done |-> TRUE, id |-> k_made[i].id, arguments |-> arguments,
                    result |-> TryBlock(functions,
                                        FirstNamed(functions, k_made[i].func.name),
                                        k_made[i].func.name, JsonLoads(arguments),
                                        E_OK),
                    content |-> result,
                    match |-> HandoffSearch(result),
                    next |-> Adopt(HandoffSearch(result), "Host")]
    /\ UNCHANGED <<k_target, k_made, h_text, h_out, tvars, dvars, rvars, lvars, bvars,
                   gvars>>

NextFactory ==
    \/ Create
    \/ \E i \in 1..MaxMade, arguments \in {B_EMPTY, B_PATH} : CallMade(i, arguments)
    \/ \E i \in 1..MaxMade, arguments \in {B_EMPTY, B_PATH} : RunMade(i, arguments)

SpecFactory == InitFactory /\ [][NextFactory]_vars

C18_State ==
    /\ \A i \in 1..Len(k_made) :
          /\ k_made[i].func.name =
                "transfer_to_" \o
                Join([j \in 1..Len(k_target) |->
                        IF k_target[j] = " " THEN "_"
                        ELSE IF k_target[j] = "Coder" THEN "coder"
                        ELSE IF k_target[j] = "Agent" THEN "agent"
                        ELSE k_target[j]])
          /\ k_made[i].func.required \cup k_made[i].func.optional = {}
          /\ \A j \in 1..Len(k_made) :
                /\ i # j => k_made[i].id # k_made[j].id
                /\ k_made[i].func = k_made[j].func
    /\ (k_made # <<>> /\ k_target = <<"Coder", " ", "Agent">>) =>
          k_made[1].func.name = "transfer_to_coder_agent"
    /\ k_out.done =>
          IF k_out.arguments = B_EMPTY
          THEN /\ ~k_out.result.exc
               /\ Join(k_out.result.text) =
                     "Transferred to: " \o Join(k_target)
                         \o ". Adopt persona immediately."
          ELSE k_out.result.exc

C18_Step == (k_out' # k_out) => UNCHANGED <<k_target, k_made, h_text, h_out, tvars, dvars, rvars, lvars, bvars,
                   gvars>>

\* C18: create_handoff_function(target_name) returns a capability without
\* parameters whose call only returns "Transferred to: {target_name}. Adopt
\* persona immediately." and whose name is "transfer_to_" followed by
\* target_name in lower case with every space replaced by an underscore; two
\* calls with the same target_name return distinct objects of identical
\* behaviour.
C18_HandoffFactory == []C18_State /\ [][C18_Step]_vars

C18_Witness ==
    /\ Len(k_made) = 2 /\ k_target = <<"Coder", " ", "Agent">>
    /\ k_out.done /\ k_out.id = 2 /\ k_out.arguments = B_EMPTY

----------------------------------------------------------------------------
\* Claims about results that are no handoff capability's (under SpecRun).

NoHandoffNames == {"read_file", "flaky", "no_such_tool"}

\* The i-th result of the turn matches the pattern and no later one does.
LastMatching(i) ==
    /\ HandoffSearch(r_out.res.new[i + 1].content).found
    /\ \A j \in (i + 1)..Len(r_response.tool_calls) :
          ~HandoffSearch(r_out.res.new[j + 1].content).found

\* C19: a tool result that matches the handoff pattern changes the next
\* agent also when the call named no handoff capability: the content of a
\* file returned by read_file, the error text dispatch builds from the
\* message of an exception, the error text for an unexpected argument.
C19_AnyMatchingResultHandsOff ==
    (r_out.done /\ ~r_out.res.raised) =>
        \A i \in 1..Len(r_response.tool_calls) :
            (r_response.tool_calls[i].name \in NoHandoffNames /\ LastMatching(i)) =>
                /\ r_out.res.next =
                      Join(HandoffSearch(r_out.res.new[i + 1].content).target)
                /\ r_out.res.next # r_agent

C19_Witness ==
    /\ r_out.done /\ r_agent = "Orchestrator Agent"
    /\ Len(r_response.tool_calls) = 2
    /\ r_response.tool_calls[1].name = "flaky"
    /\ r_response.tool_calls[2].name = "read_file"
    /\ r_response.tool_calls[2].arguments = B_PATH
    /\ r_out.res.new[3].content[1] = "Content of a:"
    /\ r_out.res.next = "Ghost"

----------------------------------------------------------------------------
\* SpecTasks: the task tools on .agent_workspace/_active_tasks.json, from
\* every file a single writer can have left, and the read of the file.

MaxTasks == 2

\* A key a JSON object does not have.
NoField == "<no field>"

Descriptions == {"A", "B"}

\* The entries of the array json.loads(tasks) returns: a string, an object
\* (with or without "description", with or without another key), a number.
JStr(d) == [type |-> "str", value |-> d, description |-> NoField, status |-> NoField]
JObj(d, s) == [type |-> "dict", value |-> NoField, description |-> d, status |-> s]
JNum == [type |-> "int", value |-> "7", description |-> NoField, status |-> NoField]

Entries ==
    {JStr(d) : d \in Descriptions}
        \cup {JObj("A", NoField), JObj("B", "completed"), JObj(NoField, NoField)}
        \cup {JNum}

\* json.loads(tasks) for the texts passed as tasks: an array of up to
\* MaxTasks entries, an object, or text that is no JSON.
TaskTexts ==
    {[ok |-> TRUE, type |-> "list", items |-> items] :
        items \in SeqsUpTo(Entries, MaxTasks)}
        \cup {[ok |-> TRUE, type |-> "dict", items |-> <<>>],
              [ok |-> FALSE, type |-> "", items |-> <<>>]}

\* json.dump(tasks, f, indent=2): the text written, piece by piece.
Dump(tasks) ==
    [k \in 1..(4 * Len(tasks) + 2) |->
        IF k = 1 THEN "["
        ELSE IF k = 4 * Len(tasks) + 2 THEN "]"
        ELSE CASE (k - 2) % 4 = 0 -> "{"
               [] (k - 2) % 4 = 1 -> tasks[(k - 2) \div 4 + 1].description
               [] (k - 2) % 4 = 2 -> tasks[(k - 2) \div 4 + 1].status
               [] OTHER -> "}"]

\* Whether text is a whole JSON array of task objects.
Parses(text) ==
    /\ Len(text) >= 2 /\ (Len(text) - 2) % 4 = 0
    /\ text[1] = "[" /\ text[Len(text)] = "]"
    /\ \A i \in 1..((Len(text) - 2) \div 4) :
          text[4 * i - 2] = "{" /\ text[4 * i + 1] = "}"

\* json.load(f) on a text that parses
Load(text) ==
    [i \in 1..((Len(text) - 2) \div 4) |->
        [description |-> text[4 * i - 1], status |-> text[4 * i]]]

WellFormedAnyEntry(task) == TRUE

\* isinstance(task, dict) and "description" in task, or isinstance(task, str)
WellFormed(task) ==
    \/ task.type = "dict" /\ task.description # NoField
    \/ task.type = "str"

FormattedKeepingStatus(task) ==
    [description |-> IF task.type = "dict" THEN task.description ELSE task.value,
     status |-> IF task.status # NoField THEN task.status ELSE "pending"]

\* The object appended to formatted_tasks for one entry.
Formatted(task) ==
    [description |-> IF task.type = "dict" THEN task.description ELSE task.value,
     status |-> "pending"]

ErrorResult(message) ==
    [status |-> "error", message |-> message, tasks |-> <<>>,
     task_count |-> NoField]

\* What create_task_list returns for json.loads(tasks) = parsed.
CreateResult(parsed) ==
    IF ~parsed.ok THEN ErrorResult(<<"Invalid JSON format for tasks: ">>)
    ELSE IF parsed.type # "list"
    THEN ErrorResult(<<"Tasks must be a JSON array of task objects">>)
    ELSE IF \E i \in 1..Len(parsed.items) : ~WellFormed(parsed.items[i])
    THEN ErrorResult(<<"Task ", ToString(Min({i \in 1..Len(parsed.items) :
                                       ~WellFormed(parsed.items[i])}) - 1),
                       " must have a 'description' field or be a string">>)
    ELSE IF parsed.items = <<>> THEN ErrorResult(<<"Task list cannot be empty">>)
    ELSE [status |-> "success",
          message |-> <<"Created task list with ", ToString(Len(parsed.items)),
                        " tasks">>,
          tasks |-> [i \in 1..Len(parsed.items) |-> Formatted(parsed.items[i])],
          task_count |-> ToString(Len(parsed.items))]

\* The files a single writer can have left behind.
InitialFiles ==
    {NoFile,
     File(Dump(<<[description |-> "A", status |-> "completed"]>>)),
     File(Dump(<<[description |-> "B", status |-> "in_progress"],
                 [description |-> "A", status |-> "completed"]>>))}

InitTasks ==
    /\ task_file \in InitialFiles
    /\ task_out = NoOutcome
    /\ writers = NoWriters
    /\ IdleStore
    /\ IdleRegistry
    /\ IdleDispatch /\ IdleRun /\ IdleLoops /\ IdleBridge /\ IdleHandoff

\* create_task_list(tasks): the file is opened with 'w' and written only on
\* the path that returns success.
CreateTaskList(parsed) ==
    /\ \E result \in {CreateResult(parsed)} :
          /\ task_out' = [done |-> TRUE, op |-> "create_task_list",
                          tasks |-> parsed, before |-> task_file,
                          result |-> result]
          /\ task_file' = IF result.status = "success"
                          THEN File(Dump(result.tasks)) ELSE task_file
    /\ UNCHANGED <<writers, svars, dvars, rvars, lvars, bvars, hvars, gvars>>

\* The task_index values passed to update_task_status: the integers around
\* the ends of a list of up to MaxTasks tasks, 5, and a string.
IntIndex(n) == [type |-> "int", n |-> n]
StrIndex == [type |-> "str", n |-> 0]
Indices == {IntIndex(n) : n \in (-1..MaxTasks) \cup {5}} \cup {StrIndex}

any_status == {"pending", "in_progress", "completed", "done"}

\* The status values passed: the three valid ones and another word.
valid_statuses == {"pending", "in_progress", "completed"}
Statuses == valid_statuses \cup {"done"}

NoTask == [description |-> NoField, status |-> NoField]

UpdateError(message) ==
    [status |-> "error", message |-> message, task |-> NoTask, written |-> FALSE,
     tasks |-> <<>>]

SetStatusMovingFirst(tasks, n, status) ==
    <<[tasks[n + 1] EXCEPT !.status = status]>>
        \o [j \in 1..(Len(tasks) - 1) |-> IF j <= n THEN tasks[j] ELSE tasks[j + 1]]

SetStatusDroppingLast(tasks, n, status) ==
    IF n + 1 < Len(tasks)
    THEN [j \in 1..(Len(tasks) - 1) |->
             IF j = n + 1 THEN [tasks[j] EXCEPT !.status = status] ELSE tasks[j]]
    ELSE [tasks EXCEPT ![n + 1] = [@ EXCEPT !.status = status]]

SetStatusOfAll(tasks, n, status) ==
    [j \in 1..Len(tasks) |-> [tasks[j] EXCEPT !.status = status]]

\* tasks[task_index]["status"] = status
SetStatus(tasks, n, status) ==
    [tasks EXCEPT ![n + 1] = [@ EXCEPT !.status = status]]

\* What update_task_status does with the tasks file it finds: the value it
\* returns, whether it rewrites the file, and the list it writes.
UpdateResult(file, task_index, status) ==
    IF ~file.exists
    THEN UpdateError(<<"No active task list found. Create one first with create_task_list.">>)
    ELSE IF ~Parses(file.text) \/ task_index.type # "int"
    THEN UpdateError(<<"Error updating task status: ">>)
    ELSE IF task_index.n < 0 \/ task_index.n >= Len(Load(file.text))
    THEN UpdateError(<<"Task index ", ToString(task_index.n), " out of range (0-",
                       ToString(Len(Load(file.text)) - 1), ")">>)
    ELSE IF status \notin valid_statuses
    THEN UpdateError(<<"Status must be 'pending', 'in_progress', or 'completed'">>)
    ELSE [status |-> "success",
          message |-> <<"Updated task ", ToString(task_index.n), " to '", status, "'">>,
          task |-> SetStatus(Load(file.text), task_index.n, status)[task_index.n + 1],
          written |-> TRUE,
          tasks |-> SetStatus(Load(file.text), task_index.n, status)]

\* Whether the call before this one was a successful update_task_status
\* with the same arguments.
Repeats(out, task_index, status) ==
    /\ out.done /\ out.op = "update_task_status"
    /\ out.task_index = task_index /\ out.status = status
    /\ out.result.status = "success"

\* update_task_status(task_index, status) by a single writer
UpdateTaskStatus(task_index, status) ==
    /\ \E result \in {UpdateResult(task_file, task_index, status)} :
          /\ task_out' = [done |-> TRUE, op |-> "update_task_status",
                          task_index |-> task_index, status |-> status,
                          before |-> task_file,
                          repeats |-> Repeats(task_out, task_index, status),
                          result |-> result]
          /\ task_file' = IF result.written THEN File(Dump(result.tasks))
                          ELSE task_file
    /\ UNCHANGED <<writers, svars, dvars, rvars, lvars, bvars, hvars, gvars>>

\* tasks_store = []
TasksStore == <<>>

\* What the call before this one was: a create_task_list with its argument
\* and the file it found, or something else.
Summary(out) ==
    IF out.done /\ out.op = "create_task_list"
    THEN [op |-> out.op, tasks |-> out.tasks, before |-> out.before]
    ELSE [op |-> "other"]

CurrentTasksUnlessStored(file, store) ==
    IF store = <<>> /\ file.exists /\ Parses(file.text) THEN Load(file.text) ELSE store

\* current_tasks of get_tasks: tasks_store, replaced by the content of the
\* file when the file exists and json.load does not raise.
CurrentTasks(file, store) ==
    IF file.exists /\ Parses(file.text) THEN Load(file.text) ELSE store

\* get_tasks: the file when it exists and parses, else tasks_store
ReadTasks ==
    /\ task_out' = [done |-> TRUE, op |-> "read", after |-> Summary(task_out),
                    tasks |-> CurrentTasks(task_file, TasksStore)]
    /\ UNCHANGED <<task_file, writers, svars, dvars, rvars, lvars, bvars, hvars,
                   gvars>>

NextTasks ==
    \/ \E parsed \in TaskTexts : CreateTaskList(parsed)
    \/ ReadTasks

SpecTasks == InitTasks /\ [][NextTasks]_vars

\* A single writer that starts with no task file and calls create_task_list
\* (with arrays of strings, the empty array, or text that is no JSON) and
\* update_task_status in any order.
WriterTexts ==
    {[ok |-> TRUE, type |-> "list", items |-> items] :
        items \in SeqsUpTo({JStr(d) : d \in Descriptions}, MaxTasks)}
        \cup {[ok |-> FALSE, type |-> "", items |-> <<>>]}

InitWriter ==
    /\ IdleTasks /\ IdleRegistry
    /\ IdleDispatch /\ IdleRun /\ IdleLoops /\ IdleBridge /\ IdleHandoff

NextWriter ==
    \/ \E parsed \in WriterTexts : CreateTaskList(parsed)
    \/ \E task_index \in Indices, status \in Statuses :
          UpdateTaskStatus(task_index, status)

SpecWriter == InitWriter /\ [][NextWriter]_vars

\* The descriptions of a non-empty array of strings and of objects with a
\* description, each with the status "pending".
Pending(items) ==
    [i \in 1..Len(items) |->
        [description |-> IF items[i].type = "str" THEN items[i].value
                         ELSE items[i].description,
         status |-> "pending"]]

Describes(parsed) ==
    /\ parsed.ok /\ parsed.type = "list" /\ parsed.items # <<>>
    /\ \A i \in 1..Len(parsed.items) :
          \/ parsed.items[i].type = "str"
          \/ parsed.items[i].type = "dict" /\ parsed.items[i].description # NoField

\* C20: create_task_list on the text of a non-empty array of strings and of
\* objects with a description replaces the task file, whatever it held, by
\* the same descriptions in the same order, each with the status "pending",
\* and returns that array; the read that follows create_task_list(["A","B"])
\* yields exactly [{A, pending}, {B, pending}].
C20_CreateReplacesFile ==
    /\ (task_out.done /\ task_out.op = "create_task_list"
        /\ Describes(task_out.tasks)) =>
          /\ task_out.result.status = "success"
          /\ task_out.result.tasks = Pending(task_out.tasks.items)
          /\ task_file.exists /\ Parses(task_file.text)
          /\ Load(task_file.text) = Pending(task_out.tasks.items)
    /\ (task_out.done /\ task_out.op = "read"
        /\ task_out.after.op = "create_task_list"
        /\ task_out.after.tasks.items = <<JStr("A"), JStr("B")>>) =>
          task_out.tasks = <<[description |-> "A", status |-> "pending"],
                             [description |-> "B", status |-> "pending"]>>

C20_Witness ==
    /\ task_out.done /\ task_out.op = "read"
    /\ task_out.after.op = "create_task_list"
    /\ task_out.after.tasks.items = <<JStr("A"), JStr("B")>>
    /\ task_out.after.before.exists
    /\ Len(task_out.tasks) = 2

\* C21: create_task_list on text that does not parse, on the text of a value
\* that is no array, on the text of the empty array and on the text of an
\* array holding an entry that is neither a string nor an object with a
\* description returns status "error" and leaves the task file as it was,
\* present or absent, also when the entries before the bad one are good.
C21_CreateRejects ==
    (task_out.done /\ task_out.op = "create_task_list"
     /\ ~Describes(task_out.tasks)) =>
        /\ task_out.result.status = "error"
        /\ task_out.result.tasks = <<>>
        /\ task_file = task_out.before

C21_Witness ==
    /\ task_out.done /\ task_out.op = "create_task_list"
    /\ task_out.tasks.items = <<JStr("A"), JNum>>
    /\ task_out.result.status = "error"
    /\ task_out.before = NoFile
    /\ task_file = NoFile

\* The last call was update_task_status and it returned success.
Updated == task_out.done /\ task_out.op = "update_task_status"
              /\ task_out.result.status = "success"

\* C22: a successful update_task_status(index, status) changes only the
\* status of the task at index: the file after it holds as many tasks as
\* before, in the same order, with the same descriptions, and every task
\* other than the one at index has the status it had; the task at index has
\* the new status.
C22_UpdateChangesOneStatus ==
    Updated =>
        /\ task_out.before.exists /\ task_file.exists
        /\ Parses(task_file.text)
        /\ Len(Load(task_file.text)) = Len(Load(task_out.before.text))
        /\ \A j \in 1..Len(Load(task_file.text)) :
              /\ Load(task_file.text)[j].description
                    = Load(task_out.before.text)[j].description
              /\ j # task_out.task_index.n + 1 =>
                    Load(task_file.text)[j].status
                        = Load(task_out.before.text)[j].status
              /\ j = task_out.task_index.n + 1 =>
                    Load(task_file.text)[j].status = task_out.status

C22_Witness ==
    /\ Updated
    /\ task_out.task_index = IntIndex(1) /\ task_out.status = "completed"
    /\ Load(task_out.before.text) = <<[description |-> "B", status |-> "in_progress"],
                                      [description |-> "A", status |-> "pending"]>>
    /\ Load(task_file.text) = <<[description |-> "B", status |-> "in_progress"],
                                [description |-> "A", status |-> "completed"]>>

\* The last call was update_task_status with an index outside the list it
\* found, with a status that is none of the three, or with no file there.
Refusable ==
    /\ task_out.done /\ task_out.op = "update_task_status"
    /\ \/ ~task_out.before.exists
       \/ task_out.status \notin {"pending", "in_progress", "completed"}
       \/ /\ task_out.task_index.type = "int"
          /\ \/ task_out.task_index.n < 0
             \/ task_out.task_index.n >= Len(Load(task_out.before.text))

\* C23: update_task_status returns status "error" and leaves the task file
\* as it was whenever the index is negative or at least the number of
\* tasks, the status is none of pending, in_progress, completed, or there
\* is no task file; update_task_status(5, "completed") on a list of two
\* tasks is such a call.
C23_UpdateRejects ==
    Refusable =>
        /\ task_out.result.status = "error"
        /\ task_file = task_out.before

C23_Witness ==
    /\ Refusable
    /\ task_out.task_index = IntIndex(5) /\ task_out.status = "completed"
    /\ task_out.before.exists /\ Len(Load(task_out.before.text)) = 2
    /\ task_out.result.status = "error"
    /\ task_file = task_out.before

\* C24: update_task_status is idempotent: a call that follows a successful
\* call with the same index and status succeeds too, returns the same task
\* and leaves the file exactly as the first call left it.
C24_UpdateIdempotent ==
    (task_out.done /\ task_out.op = "update_task_status" /\ task_out.repeats) =>
        /\ task_out.result.status = "success"
        /\ task_out.result.task.status = task_out.status
        /\ task_file = task_out.before

C24_Witness ==
    /\ task_out.done /\ task_out.op = "update_task_status" /\ task_out.repeats
    /\ task_out.task_index = IntIndex(0) /\ task_out.status = "in_progress"
    /\ task_out.result.status = "success"
    /\ Len(Load(task_file.text)) = 2

\* The task file, when there is one, is the text of a non-empty list whose
\* statuses are all among pending, in_progress, completed.
FileInOrder ==
    task_file.exists =>
        /\ Parses(task_file.text)
        /\ Len(Load(task_file.text)) >= 1
        /\ \A j \in 1..Len(Load(task_file.text)) :
              Load(task_file.text)[j].status
                  \in {"pending", "in_progress", "completed"}

\* An update_task_status call neither creates nor removes the file nor
\* changes the number of tasks in it.
UpdateKeepsCount ==
    (task_out'.done /\ task_out'.op = "update_task_status") =>
        /\ task_file'.exists = task_file.exists
        /\ Len(task_file'.text) = Len(task_file.text)

C25_State == []FileInOrder
C25_Step == [][UpdateKeepsCount]_vars

\* C25: after any sequence of create_task_list and update_task_status
\* calls by a single writer that starts with no task file, the file, when
\* it exists, holds a non-empty list in which every status is pending,
\* in_progress or completed; no update_task_status call adds or removes a
\* task.
C25_FileStaysInOrder == C25_State /\ C25_Step

C25_Witness ==
    /\ Updated
    /\ Load(task_file.text) = <<[description |-> "A", status |-> "completed"],
                                [description |-> "B", status |-> "in_progress"]>>

----------------------------------------------------------------------------
\* SpecRace: two update_task_status calls running at the same time on one
\* task file.  Nothing in the call locks the file, so the steps of the two
\* calls interleave freely: the check for the file and the read, the
\* open(tasks_file, 'w') that empties the file, and the close that flushes
\* the buffered text at offset 0 of the writer's own descriptor.

Writers == {1, 2}

\* The number of bytes json.dump(tasks, f, indent=2) writes for one piece of
\* the text: "[" and a line break, the indented brace, the indented
\* "description" and "status" lines, the closing brace with its comma (the
\* last brace has none: one byte less in every text alike), "]"; a
\* left-over byte counts 1.
TokenWidth(token) ==
    CASE token = "[" -> 2
      [] token = "{" -> 4
      [] token \in Descriptions -> 24
      [] token = "pending" -> 24
      [] token = "completed" -> 26
      [] token = "in_progress" -> 28
      [] token = "}" -> 5
      [] OTHER -> 1

RECURSIVE Bytes(_)
Bytes(text) == IF text = <<>> THEN 0 ELSE TokenWidth(Head(text)) + Bytes(Tail(text))

OverlayReplacing(text, written) == written

\* What the file holds after written is flushed at offset 0 of a file that
\* held text: the bytes of text beyond the end of written stay.
Overlay(text, written) ==
    IF Bytes(text) > Bytes(written)
    THEN written \o [k \in 1..(Bytes(text) - Bytes(written)) |-> "~"]
    ELSE written

\* The lists the two calls find: one to MaxTasks tasks, all with one status.
RaceLists ==
    {[j \in 1..n |-> [description |-> IF j % 2 = 1 THEN "A" ELSE "B", status |-> s]] :
        n \in 1..MaxTasks, s \in {"pending", "completed"}}

Called(task_index, status) ==
    [pc |-> "called", task_index |-> task_index, status |-> status,
     seen |-> NoFile, tasks |-> <<>>, result |-> NoField]

InitRace ==
    /\ task_file \in {NoFile} \cup {File(Dump(tasks)) : tasks \in RaceLists}
    /\ task_out = NoOutcome
    /\ \E i1, i2 \in 0..(MaxTasks - 1), s1, s2 \in Statuses :
          writers = [w |-> <<Called(IntIndex(i1), s1), Called(IntIndex(i2), s2)>>,
                     overlap |-> FALSE, order |-> <<>>]
    /\ IdleStore
    /\ IdleRegistry
    /\ IdleDispatch /\ IdleRun /\ IdleLoops /\ IdleBridge /\ IdleHandoff

\* Lines 96-119: the check for the file, the read, the checks of the
\* arguments and the assignment to the list in memory.
WRead(p) ==
    /\ writers.w[p].pc = "called"
    /\ \E result \in {UpdateResult(task_file, writers.w[p].task_index,
                                   writers.w[p].status)} :
          writers' = [writers EXCEPT !.w[p] =
                         [@ EXCEPT !.pc = IF result.written THEN "loaded" ELSE "done",
                                   !.seen = task_file,
                                   !.tasks = result.tasks,
                                   !.result = IF result.written THEN NoField
                                              ELSE result.status]]
    /\ UNCHANGED <<task_file, task_out, svars, dvars, rvars, lvars, bvars, hvars,
                   gvars>>

\* Line 122: open(tasks_file, 'w') empties the file.
WOpen(p) ==
    /\ writers.w[p].pc = "loaded"
    /\ task_file' = File(<<>>)
    /\ writers' = [writers EXCEPT
                      !.w[p] = [@ EXCEPT !.pc = "opened"],
                      !.overlap = @ \/ \E q \in Writers \ {p} :
                                          writers.w[q].pc = "opened"]
    /\ UNCHANGED <<task_out, svars, dvars, rvars, lvars, bvars, hvars, gvars>>

\* Lines 123-129: json.dump into the buffer, the flush when the with block
\* closes the file, and the return of success.
WClose(p) ==
    /\ writers.w[p].pc = "opened"
    /\ task_file' = File(Overlay(task_file.text, Dump(writers.w[p].tasks)))
    /\ writers' = [writers EXCEPT
                      !.w[p] = [@ EXCEPT !.pc = "done", !.result = "success"],
                      !.order = Append(@, p)]
    /\ UNCHANGED <<task_out, svars, dvars, rvars, lvars, bvars, hvars, gvars>>

\* The values of tasks_store a request can meet: the empty list, or a list
\* loaded from the file during a workflow.
Stores == {<<>>, <<[description |-> "A", status |-> "pending"]>>}

\* GET /tasks while update_task_status calls are under way.
GetTasks(store) ==
    /\ task_out' = [done |-> TRUE, op |-> "get_tasks", file |-> task_file,
                    store |-> store, status |-> "success",
                    tasks |-> CurrentTasks(task_file, store)]
    /\ UNCHANGED <<task_file, writers, svars, dvars, rvars, lvars, bvars, hvars,
                   gvars>>

NextRace ==
    \/ \E p \in Writers : WRead(p)
    \/ \E p \in Writers : WOpen(p)
    \/ \E p \in Writers : WClose(p)
    \/ \E store \in Stores : GetTasks(store)

SpecRace == InitRace /\ [][NextRace]_vars

\* Both calls have returned success after reading the same file, each for
\* another index and each with a status other than the one it found there:
\* both read the file before either rewrote it.
WStatusSeen(p) ==
    Load(writers.w[p].seen.text)[writers.w[p].task_index.n + 1].status

BothReadFirst ==
    /\ writers.w # <<>>
    /\ \A p \in Writers : writers.w[p].pc = "done" /\ writers.w[p].result = "success"
    /\ writers.w[1].seen = writers.w[2].seen
    /\ writers.w[1].task_index # writers.w[2].task_index
    /\ \A p \in Writers : writers.w[p].status # WStatusSeen(p)

Earlier == writers.order[1]
Later == writers.order[2]

LaterText == Dump(writers.w[Later].tasks)
EarlierText == Dump(writers.w[Earlier].tasks)

\* The file holds both new statuses.
BothApplied ==
    /\ Parses(task_file.text)
    /\ \A p \in Writers :
          Load(task_file.text)[writers.w[p].task_index.n + 1].status
              = writers.w[p].status

----------------------------------------------------------------------------
\* SpecWorkflow: the programmatic loop on the coding agents with
\* max_iterations = MaxTurns, on oracle responses that each call one tool:
\* finalize a function, hand off between the Orchestrator and the Tester,
\* run the unit tests with either outcome.  A turn that ends with a tool
\* message never stops the loop, so every pass runs the agent, extends the
\* conversation and moves the cursor.

MaxTurns == 4

E_FAILED == [raises |-> FALSE, text |-> <<"1 failed">>]

WorkflowResponses ==
    {Answer(<<>>, <<Call1(Request("finalize_function", B_FINALIZE, E_OK))>>),
     Answer(<<>>, <<Call1(Request("finalize_function", B_FINALIZE, E_BOOM))>>),
     Answer(<<>>, <<Call1(Request("transfer_to_tester_agent", B_EMPTY, E_OK))>>),
     Answer(<<>>, <<Call1(Request("run_unit_tests", B_TESTS, E_OK))>>),
     Answer(<<>>, <<Call1(Request("run_unit_tests", B_TESTS, E_FAILED))>>),
     Answer(<<>>, <<Call1(Request("transfer_to_orchestrator_agent", B_EMPTY, E_OK))>>)}

InitWorkflow ==
    /\ r_agent = "Orchestrator Agent"
    /\ r_messages = <<UserMessage(<<"hello">>)>>
    /\ r_response = Answer(<<>>, <<>>)
    /\ r_out = NoOutcome
    /\ IdleDispatch /\ IdleLoops /\ IdleBridge /\ IdleHandoff /\ IdleTasks /\ IdleRegistry

\* The turns taken so far: one assistant message each.
Turns(msgs) == Cardinality({i \in 1..Len(msgs) : msgs[i].role = "assistant"})

\* One pass of the loop: next_agent_name, new_messages = agent.run(messages);
\* messages.extend(new_messages); current_agent_name = next_agent_name;
\* iterations += 1.
WorkflowTurn(response) ==
    /\ Turns(r_messages) < MaxTurns
    /\ \E res \in {Run(r_agent, r_messages, response)} :
          /\ ~res.raised
          /\ r_out' = [done |-> TRUE, res |-> res]
          /\ r_messages' = r_messages \o res.new
          /\ r_agent' = res.next
    /\ r_response' = response
    /\ UNCHANGED <<dvars, lvars, bvars, hvars, tvars, gvars>>

NextWorkflow == \E response \in WorkflowResponses : WorkflowTurn(response)

SpecWorkflow == InitWorkflow /\ [][NextWorkflow]_vars

\* The tool results of a conversation: for every assistant message and each
\* of its tool calls, the position of the tool message that answers it, the
\* name called and the text returned.
ToolResults(msgs) ==
    {[at |-> a + k, name |-> msgs[a].tool_calls[k].name, content |-> msgs[a + k].content] :
        <<a, k>> \in {<<a, k>> \in (1..Len(msgs)) \X (1..MaxCalls) :
                         /\ msgs[a].role = "assistant"
                         /\ k <= Len(msgs[a].tool_calls)
                         /\ a + k <= Len(msgs)}}

Mentions(content, token) == \E i \in 1..Len(content) : content[i] = token

\* C27 as stated: every successful finalize_function call of a conversation
\* comes after a run_unit_tests result with status "passed" (run_unit_tests
\* is a tool of the Tester Agent only).
C27_Original ==
    \A e \in ToolResults(r_messages) :
        (e.name = "finalize_function" /\ Mentions(e.content, FINALIZED)) =>
            \E f \in ToolResults(r_messages) :
                /\ f.at < e.at
                /\ f.name = "run_unit_tests"
                /\ Mentions(f.content, PASSED)

----------------------------------------------------------------------------
\* SpecFreeRun: the two loops that run without user input, each to its end:
\* the programmatic loop with max_iterations up to MaxIter, and one workflow
\* of the bridge with its cap of 30 passes.  The passes of the bridge keep
\* the loop's control state only (cursor, counter, streak): neither the
\* while condition nor the next agent of a turn reads the conversation, so
\* the buffers are left empty here.  The record of a pass carries the
\* trail of the latest passes: whether each returned the agent it ran.

FreeResponses ==
    {OracleFailure,
     Answer(<<"Done">>, <<>>),
     Answer(<<>>, <<Call1(Request("transfer_to_coder_agent", B_EMPTY, E_OK))>>),
     Answer(<<>>, <<Call1(Request("transfer_to_orchestrator_agent", B_EMPTY, E_OK))>>),
     Answer(<<>>, <<Call1(Request("read_file", B_SENTINEL, E_OK))>>)}

InitFreeRun ==
    \/ InitLoop /\ mode = "programmatic"
    \/ /\ mode = "bridge"
       /\ agents = create_coding_agents
       /\ starting_agent_name = "" /\ max_iterations = 0 /\ pc = ""
       /\ current_agent_name = "" /\ messages = <<>> /\ iterations = 0
       /\ stop = "" /\ printed = <<>> /\ last = [op |-> ""] /\ n_oracle = 0
       /\ workflow_status = "planning" /\ workflow_running = FALSE
       /\ current_conversation = <<>>
       /\ wf = [t \in 1..MaxWorkflows |->
                   IF t = 1 THEN [FreeSlot EXCEPT !.pc = "queued"] ELSE FreeSlot]
       /\ IdleDispatch /\ IdleRun /\ IdleHandoff /\ IdleTasks /\ IdleRegistry

\* The latest NoHandoffLimit passes of the workflow, oldest first.
Trail == IF last.op = "bridge_pass" THEN last.trail ELSE <<>>

Latest(trail) ==
    IF Len(trail) > NoHandoffLimit
    THEN SubSeq(trail, Len(trail) - NoHandoffLimit + 1, Len(trail))
    ELSE trail

\* One pass of the bridge's while loop with an agent found, as BTurn, on
\* the control state.
BPass(t, response) ==
    /\ mode = "bridge"
    /\ wf[t].pc = "loop"
    /\ Registered(wf[t].current_agent_name)
    /\ \E w \in {wf[t]} :
       \E out \in {Run(w.current_agent_name, <<>>, response)} :
       \E streak \in {NoHandoffCount(out.next, w.current_agent_name,
                                      w.no_handoff_count)} :
           /\ last' = [op |-> "bridge_pass", t |-> t,
                       agent |-> w.current_agent_name,
                       response |-> response, raised |-> out.raised,
                       next |-> out.next,
                       trail |-> IF out.raised THEN Trail
                                 ELSE Latest(Append(Trail,
                                          out.next = w.current_agent_name))]
           /\ IF out.raised
              THEN /\ workflow_status' = "error"
                   /\ workflow_running' = FALSE
                   /\ wf' = [wf EXCEPT ![t] = Ended("exception")]
              ELSE IF ~BridgeContinues(streak, w.iterations + 1)
                   THEN /\ workflow_status' = "completed"
                        /\ workflow_running' = FALSE
                        /\ wf' = [wf EXCEPT ![t] =
                                    Ended(IF streak >= NoHandoffLimit
                                          THEN "no_handoff" ELSE "cap")]
                   ELSE /\ wf' = [wf EXCEPT ![t] =
                                    [pc |-> "loop", messages |-> <<>>,
                                     current_agent_name |-> out.next,
                                     iterations |-> w.iterations + 1,
                                     no_handoff_count |-> streak,
                                     ended |-> ""]]
                        /\ UNCHANGED <<workflow_status, workflow_running>>
    /\ n_oracle' = n_oracle + 1
    /\ UNCHANGED <<mode, agents, starting_agent_name, max_iterations, pc,
                   current_agent_name, messages, iterations, stop, printed,
                   current_conversation, dvars, rvars, hvars, tvars, gvars>>

NextFreeRun ==
    \/ PStart
    \/ PCap
    \/ PNotFound
    \/ \E response \in FreeResponses : PTurn(response)
    \/ \E t \in 1..MaxWorkflows : BStart(t)
    \/ \E t \in 1..MaxWorkflows : BNotFound(t)
    \/ \E t \in 1..MaxWorkflows, response \in FreeResponses : BPass(t, response)

\* Each loop is sequential code whose calls return: while it has not ended,
\* its next statement is executed.
SpecFreeRun == InitFreeRun /\ [][NextFreeRun]_vars /\ WF_vars(NextFreeRun)

\* The loop of the run has ended.
FreeRunEnded ==
    \/ mode = "programmatic" /\ pc = "done"
    \/ mode = "bridge" /\ wf[1].pc = "done"

\* The agent runs made so far stay within the cap.
RunsWithinCap ==
    /\ mode = "programmatic" => n_oracle <= max_iterations
    /\ mode = "bridge" => n_oracle <= 30

\* A pass that ran an agent either ended the loop or advanced the counter.
PassStopsOrAdvances ==
    n_oracle' = n_oracle + 1 =>
        /\ mode = "programmatic" =>
              pc' = "done" \/ (pc' = "head" /\ iterations' = iterations + 1)
        /\ mode = "bridge" =>
              \/ wf'[1].pc = "done"
              \/ wf'[1].pc = "loop" /\ wf'[1].iterations = wf[1].iterations + 1

C28_State == []RunsWithinCap
C28_Step == [][PassStopsOrAdvances]_vars
C28_Ends == <>FreeRunEnded

\* C28: when every oracle call returns or raises, the programmatic loop
\* and the bridge workflow end; the programmatic loop makes at most
\* max_iterations agent runs and the bridge at most 30, since every pass
\* either ends the loop or advances the iteration counter.
C28_LoopsEndWithinCap == C28_State /\ C28_Step /\ C28_Ends

C28_Witness ==
    /\ mode = "bridge" /\ wf[1].pc = "done" /\ wf[1].ended = "cap"
    /\ n_oracle = 30

\* The number of passes at the end of the trail that returned the agent
\* they ran.
RECURSIVE SelfTurnsInARow(_)
SelfTurnsInARow(trail) ==
    IF trail = <<>> \/ ~trail[Len(trail)] THEN 0
    ELSE 1 + SelfTurnsInARow(SubSeq(trail, 1, Len(trail) - 1))

BridgePassed == mode = "bridge" /\ last.op = "bridge_pass" /\ ~last.raised

\* C29: the bridge's workflow loop stops as soon as 3 passes in a row
\* returned the agent they ran; a pass that changes the agent resets the
\* streak counter to 0, the counter is always the number of such passes in
\* a row, and the loop never stops for lack of handoff after fewer than 3
\* of them in a row.
C29_StopsAtThreeInARow ==
    /\ (BridgePassed /\ SelfTurnsInARow(last.trail) >= 3) =>
          wf[1].pc = "done" /\ wf[1].ended = "no_handoff"
    /\ (mode = "bridge" /\ wf[1].ended = "no_handoff") =>
          BridgePassed /\ SelfTurnsInARow(last.trail) = 3
    /\ (BridgePassed /\ wf[1].pc = "loop") =>
          /\ wf[1].no_handoff_count = SelfTurnsInARow(last.trail)
          /\ last.next # last.agent => wf[1].no_handoff_count = 0

C29_Witness ==
    /\ mode = "bridge" /\ wf[1].ended = "no_handoff"
    /\ n_oracle = 6
    /\ last.trail = <<TRUE, TRUE, TRUE>>

\* Some tool message among the new messages of a turn matches the handoff
\* pattern.
SomeResultMatches(out) ==
    /\ ~out.raised
    /\ \E i \in 1..Len(out.new) :
          out.new[i].role = "tool" /\ HandoffSearch(out.new[i].content).found

\* A step that moves the cursor of the interactive or the programmatic
\* loop, or of a workflow of the bridge, once the loop has its first agent.
LoopCursorMoves ==
    /\ mode \in {"interactive", "programmatic"}
    /\ pc \notin {"", "start"}
    /\ current_agent_name' # current_agent_name

WorkflowCursorMoves(t) ==
    /\ mode = "bridge"
    /\ wf[t].pc = "loop" /\ wf'[t].pc = "loop"
    /\ wf'[t].current_agent_name # wf[t].current_agent_name

CursorMovesOnMatchOnly ==
    /\ LoopCursorMoves =>
          last'.op = "run" /\ SomeResultMatches(last'.out)
    /\ \A t \in 1..MaxWorkflows :
          WorkflowCursorMoves(t) =>
              /\ last'.op = "bridge_run" /\ last'.t = t
              /\ SomeResultMatches(last'.out)

\* C30: the cursor of a loop changes only in a turn in which some tool
\* result matches the handoff pattern: user input, plain assistant turns
\* and tool-calling turns whose results do not match, dispatch errors
\* among them, leave the cursor on the same agent.
C30_CursorMovesOnMatchOnly == [][CursorMovesOnMatchOnly]_vars

C30_Witness ==
    /\ mode = "interactive" /\ pc = "head"
    /\ last.op = "run" /\ ~last.out.raised
    /\ Len(last.response.tool_calls) = 2
    /\ ~SomeResultMatches(last.out)
    /\ current_agent_name = last.agent
    /\ iterations = 2

----------------------------------------------------------------------------
\* Claims about the bridge's requests (checked under Spec).

\* The workflows in progress: accepted and not yet started, or in their loop.
InProgress == {t \in 1..MaxWorkflows : wf[t].pc \in {"queued", "loop"}}

\* C31 as stated: at most one workflow is in progress in the bridge at any
\* time (a submit-prompt request made while one is accepted, started or
\* running is rejected), so two run_agent_workflow executions never
\* overlap.
C31_Original == mode = "bridge" => Cardinality(InProgress) <= 1

\* C32 as stated: after a reset request returned and until the next
\* submit-prompt request, workflow_status stays "idle" and the stores stay
\* empty, also when a workflow was running at the reset.  The status is
\* "idle" only from the start or a reset until the next accepted submit, so
\* the statement requires the conversation store to be empty whenever the
\* status is "idle".
C32_Original ==
    (mode = "bridge" /\ workflow_status = "idle") => current_conversation = <<>>

\* The step just taken ended workflow t of the bridge.
JustEnded(t) ==
    /\ mode = "bridge"
    /\ last.op \in {"bridge_start", "bridge_not_found", "bridge_run"}
    /\ last.t = t
    /\ wf[t].pc = "done"

\* C33 as stated: a bridge workflow ends with workflow_status "completed"
\* only when its loop stopped by the no-handoff streak or the iteration
\* cap; every error stop (no agents, a cursor naming no registered agent, a
\* failure of the oracle) ends with workflow_status "error"; on every path
\* workflow_running is false once the workflow has ended.
C33_Original ==
    \A t \in 1..MaxWorkflows :
        JustEnded(t) =>
            /\ ~workflow_running
            /\ workflow_status = "completed" => wf[t].ended \in {"no_handoff", "cap"}
            /\ wf[t].ended \in {"no_agents", "not_found", "exception"} =>
                  workflow_status = "error"

\* The last request was GET /tasks.
TasksRead == task_out.done /\ task_out.op = "get_tasks"

\* C34: GET /tasks reads the task file at every request and always
\* returns success: the content of the file whenever the file exists and
\* parses, whatever tasks_store holds, and tasks_store when the file is
\* absent or does not parse, as when it is read between the open and the
\* close of a rewrite.
C34_ReadPrefersFile ==
    TasksRead =>
        /\ task_out.status = "success"
        /\ (task_out.file.exists /\ Parses(task_out.file.text)) =>
              /\ Dump(task_out.tasks) = task_out.file.text
        /\ ~(task_out.file.exists /\ Parses(task_out.file.text)) =>
              task_out.tasks = task_out.store

C34_Witness ==
    /\ TasksRead
    /\ task_out.file = File(<<>>)
    /\ task_out.store # <<>>
    /\ task_out.tasks = task_out.store
    /\ task_file.exists /\ Parses(task_file.text)

----------------------------------------------------------------------------
\* The bridge's task store: workflows that call create_task_list, and the
\* loop's load of the task file into tasks_store.

\* json.loads of the tasks argument a create_task_list call carries.
TasksArg(arguments) ==
    CASE arguments = B_TASKS_A ->
            [ok |-> TRUE, type |-> "list", items |-> <<JStr("A")>>]
      [] arguments = B_TASKS_B ->
            [ok |-> TRUE, type |-> "list", items |-> <<JStr("B")>>]
      [] OTHER -> [ok |-> FALSE, type |-> "", items |-> <<>>]

RECURSIVE FileAfter(_, _, _, _)
\* The task file after the first n tool calls of a turn: every
\* create_task_list body that ran and returned success rewrote it.
FileAfter(file, tool_calls, ran, n) ==
    IF n = 0 THEN [file |-> file, wrote |-> FALSE]
    ELSE IF ran[n] = "create_task_list"
            /\ CreateResult(TasksArg(tool_calls[n].arguments)).status = "success"
    THEN [file |-> File(Dump(CreateResult(TasksArg(tool_calls[n].arguments)).tasks)),
          wrote |-> TRUE]
    ELSE FileAfter(file, tool_calls, ran, n - 1)

\* if tasks_file.exists() and not tasks_extracted, and json.load returns a
\* non-empty list: the pass loads the file into tasks_store.
Loads(file, extracted) ==
    file.exists /\ ~extracted /\ Parses(file.text) /\ Load(file.text) # <<>>

StoreResponses ==
    {OracleFailure,
     Answer(<<"Done">>, <<>>),
     Answer(<<>>, <<Call1(Request("create_task_list", B_TASKS_A, E_OK))>>),
     Answer(<<>>, <<Call1(Request("create_task_list", B_TASKS_B, E_OK))>>),
     Answer(<<>>, <<Call1(Request("transfer_to_coder_agent", B_EMPTY, E_OK))>>),
     Answer(<<>>, <<Call1(Request("read_file", B_SENTINEL, E_OK))>>)}

InitStore ==
    /\ mode = "bridge"
    /\ agents = create_coding_agents
    /\ starting_agent_name = "" /\ max_iterations = 0 /\ pc = ""
    /\ current_agent_name = "" /\ messages = <<>> /\ iterations = 0
    /\ stop = "" /\ printed = <<>> /\ last = [op |-> ""] /\ n_oracle = 0
    /\ workflow_status = "idle" /\ workflow_running = FALSE
    /\ current_conversation = <<>>
    /\ wf = [t \in 1..MaxWorkflows |-> FreeSlot]
    /\ IdleDispatch /\ IdleRun /\ IdleHandoff /\ IdleTasks /\ IdleRegistry

\* One pass of the bridge's while loop with an agent found, as BTurn, on
\* the control state and the task file: the tool calls of the run rewrite
\* the file, and the pass then loads it unless this workflow has loaded it
\* before.
TPass(t, response) ==
    /\ mode = "bridge"
    /\ wf[t].pc = "loop"
    /\ Registered(wf[t].current_agent_name)
    /\ n_oracle < MaxBridgeTurns
    /\ \E w \in {wf[t]} :
       \E out \in {Run(w.current_agent_name, <<>>, response)} :
       \E streak \in {NoHandoffCount(out.next, w.current_agent_name,
                                      w.no_handoff_count)} :
       \E after \in {FileAfter(task_file, response.tool_calls, out.ran,
                               Len(out.ran))} :
           /\ last' = [op |-> "bridge_tasks_pass", t |-> t,
                       agent |-> w.current_agent_name,
                       response |-> response, raised |-> out.raised,
                       wrote |-> after.wrote,
                       loaded |-> ~out.raised
                                  /\ Loads(after.file, tasks_extracted[t])]
           /\ task_file' = after.file
           /\ file_writer' = IF after.wrote THEN t ELSE file_writer
           /\ IF out.raised
              THEN /\ workflow_status' = "error"
                   /\ workflow_running' = FALSE
                   /\ wf' = [wf EXCEPT ![t] = Ended("exception")]
                   /\ UNCHANGED <<tasks_store, tasks_extracted, store_source>>
              ELSE /\ IF Loads(after.file, tasks_extracted[t])
                      THEN /\ tasks_store' = Load(after.file.text)
                           /\ tasks_extracted' =
                                 [tasks_extracted EXCEPT ![t] = TRUE]
                           /\ store_source' =
                                 [by |-> t,
                                  from |-> IF after.wrote THEN t ELSE file_writer]
                      ELSE UNCHANGED <<tasks_store, tasks_extracted,
                                       store_source>>
                   /\ IF ~BridgeContinues(streak, w.iterations + 1)
                      THEN /\ workflow_status' = "completed"
                           /\ workflow_running' = FALSE
                           /\ wf' = [wf EXCEPT ![t] =
                                       Ended(IF streak >= NoHandoffLimit
                                             THEN "no_handoff" ELSE "cap")]
                      ELSE /\ wf' = [wf EXCEPT ![t] =
                                       [pc |-> "loop", messages |-> <<>>,
                                        current_agent_name |-> out.next,
                                        iterations |-> w.iterations + 1,
                                        no_handoff_count |-> streak,
                                        ended |-> ""]]
                           /\ UNCHANGED <<workflow_status, workflow_running>>
    /\ n_oracle' = n_oracle + 1
    /\ UNCHANGED <<mode, agents, starting_agent_name, max_iterations, pc,
                   current_agent_name, messages, iterations, stop, printed,
                   current_conversation, dvars, rvars, hvars, task_out, writers,
                   gvars>>

NextStore ==
    \/ \E t \in 1..MaxWorkflows : Submit(t)
    \/ \E t \in 1..MaxWorkflows : BStart(t)
    \/ \E t \in 1..MaxWorkflows : BNotFound(t)
    \/ \E t \in 1..MaxWorkflows, response \in StoreResponses : TPass(t, response)
    \/ Reset

SpecStore == InitStore /\ [][NextStore]_vars

\* C35: whenever a workflow's loop has loaded tasks_store, the task file it
\* loaded was written by a create_task_list call of that same workflow.
C35_Original == store_source.by # 0 => store_source.from = store_source.by

----------------------------------------------------------------------------
\* One agent's registry under add_tool and remove_tool.

\* Number of callable objects at hand.
MaxObjects == 4

\* func.__name__ of the i-th object: the first two are distinct objects of
\* one name.
NameOf(i) ==
    CASE i <= 2 -> "read_file"
      [] i = 3 -> "fix_function"
      [] i = 4 -> "run_unit_tests"
      [] OTHER -> "web_search"

Objects == {[id |-> i, name |-> NameOf(i)] : i \in 1..MaxObjects}

\* The names given to remove_tool: those of the objects and one of none.
ToolNames == {NameOf(i) : i \in 1..MaxObjects} \cup {"unknown"}

\* The entry _create_tools builds for one function.
Schema(func) == [type |-> "function", name |-> func.name]

\* _create_tools: one entry per function, in the order of self.functions.
create_tools(fs) == [i \in 1..Len(fs) |-> Schema(fs[i])]

\* __post_init__: self.tools = self._create_tools() if self.functions else None
PostInit(fs) ==
    IF fs = <<>> THEN NoTools ELSE [none |-> FALSE, list |-> create_tools(fs)]

RECURSIVE WithoutFirstNamed(_, _)
WithoutFirstNamed(fs, func_name) ==
    IF fs = <<>> THEN <<>>
    ELSE IF Head(fs).name = func_name THEN Tail(fs)
    ELSE <<Head(fs)>> \o WithoutFirstNamed(Tail(fs), func_name)

RECURSIVE WithoutNamed(_, _)
\* [f for f in self.functions if f.__name__ != func_name]
WithoutNamed(fs, func_name) ==
    IF fs = <<>> THEN <<>>
    ELSE IF Head(fs).name = func_name THEN WithoutNamed(Tail(fs), func_name)
    ELSE <<Head(fs)>> \o WithoutNamed(Tail(fs), func_name)

\* func in self.functions
In(func, fs) == \E i \in 1..Len(fs) : fs[i] = func

\* The agent after construction: the functions passed to it (none, one, or
\* two, the same object twice included), and the tools __post_init__ built.
InitRegistry ==
    /\ a_functions \in SeqsUpTo(Objects, 2)
    /\ a_tools = PostInit(a_functions)
    /\ a_out = [op |-> ""]
    /\ IdleDispatch /\ IdleRun /\ IdleLoops /\ IdleBridge /\ IdleHandoff
    /\ IdleTasks

\* add_tool(func): an object not in the list is appended and __post_init__
\* rebuilds the tools; an object in the list changes nothing.
AddTool(func) ==
    /\ IF In(func, a_functions)
       THEN UNCHANGED <<a_functions, a_tools>>
       ELSE /\ a_functions' = Append(a_functions, func)
            /\ a_tools' = PostInit(Append(a_functions, func))
    /\ a_out' = [op |-> "add_tool", func |-> func, func_name |-> func.name,
                 functions |-> a_functions, tools |-> a_tools]
    /\ UNCHANGED <<dvars, rvars, lvars, bvars, hvars, tvars>>

\* remove_tool(func_name): the list is filtered and __post_init__ rebuilds
\* the tools.
RemoveTool(func_name) ==
    /\ a_functions' = WithoutNamed(a_functions, func_name)
    /\ a_tools' = PostInit(WithoutNamed(a_functions, func_name))
    /\ a_out' = [op |-> "remove_tool", func |-> [id |-> 0, name |-> func_name],
                 func_name |-> func_name,
                 functions |-> a_functions, tools |-> a_tools]
    /\ UNCHANGED <<dvars, rvars, lvars, bvars, hvars, tvars>>

NextRegistry ==
    \/ \E func \in Objects : AddTool(func)
    \/ \E func_name \in ToolNames : RemoveTool(func_name)

SpecRegistry == InitRegistry /\ [][NextRegistry]_vars

\* The advertised schemas agree with the registry.
ToolsMatchFunctions ==
    /\ a_tools.none <=> a_functions = <<>>
    /\ Len(a_tools.list) = Len(a_functions)
    /\ \A i \in 1..Len(a_functions) : a_tools.list[i].name = a_functions[i].name

\* The latest add_tool call was given an object of the registry.
AddedAgain == a_out.op = "add_tool" /\ In(a_out.func, a_out.functions)

\* The functions of the list whose name is not func_name, in their order.
Others(fs, func_name) == SelectSeq(fs, LAMBDA f : f.name # func_name)

\* C36: after any sequence of add_tool and remove_tool calls the schema
\* list is absent exactly when the registry is empty and otherwise has one
\* entry per registered capability, in registry order, with its name;
\* add_tool of a registered object changes nothing; remove_tool leaves
\* exactly the capabilities of other names (all of them when the name is
\* unknown).
C36_ToolsFollowRegistry ==
    /\ ToolsMatchFunctions
    /\ AddedAgain =>
          a_functions = a_out.functions /\ a_tools = a_out.tools
    /\ a_out.op = "remove_tool" =>
          /\ a_functions = Others(a_out.functions, a_out.func_name)
          /\ \A i \in 1..Len(a_functions) :
                a_functions[i].name # a_out.func_name
          /\ (\A i \in 1..Len(a_out.functions) :
                a_out.functions[i].name # a_out.func_name)
                => a_functions = a_out.functions

\* remove_tool took two capabilities of one name out of a registry and left
\* another one, whose schema is advertised.
C36_Witness ==
    /\ a_out.op = "remove_tool"
    /\ Len(a_out.functions) = Len(a_functions) + 2
    /\ a_functions # <<>>
    /\ ~a_tools.none
    /\ a_tools.list[1].name = a_functions[1].name

----------------------------------------------------------------------------
\* Claims about the registries of the agents (checked under SpecDispatch
\* and SpecFactory).

\* The names in the registry of an agent.
Registers(agent, function_name) ==
    \E i \in 1..Len(Functions(agent)) : Functions(agent)[i].name = function_name

\* The capability the dispatch ran is one of this set only if the agent
\* is this one.
OnlyRunBy(agent, names) ==
    (d_out.done /\ d_out.res.ran \in names) => d_agent = agent

\* C37: a dispatch runs a capability only if the agent's own registry
\* holds it under the requested name; a request naming a capability that
\* only other agents register returns the not-found error and runs
\* nothing; the testing tools run only with the Tester Agent, the coding
\* tools only with the Coder Agent, and finalize_function, create_task_list
\* and update_task_status only with the Orchestrator Agent.
C37_OwnRegistryOnly ==
    /\ (d_out.done /\ d_out.res.ran # "") =>
          d_out.res.ran = d_name /\ Registers(d_agent, d_name)
    /\ (d_out.done /\ ~Registers(d_agent, d_name)
        /\ \E other \in AgentNames : Registers(other, d_name)) =>
          /\ d_out.res.text = <<"Error: Function ", d_name, " not found">>
          /\ d_out.res.ran = ""
    /\ OnlyRunBy("Tester Agent",
                 {"write_unit_tests", "run_unit_tests", "setup_test_environment"})
    /\ OnlyRunBy("Coder Agent", {"create_function", "fix_function"})
    /\ OnlyRunBy("Orchestrator Agent",
                 {"finalize_function", "create_task_list", "update_task_status"})

\* The Coder Agent was asked for run_unit_tests with arguments that run it
\* in the Tester Agent's registry, and returned the not-found error.
C37_Witness ==
    /\ d_out.done
    /\ d_agent = "Coder Agent"
    /\ d_name = "run_unit_tests"
    /\ d_args = B_TESTS
    /\ Ran("Tester Agent", d_name, d_args) = "run_unit_tests"
    /\ d_out.res.ran = ""
    /\ d_out.res.text = <<"Error: Function ", "run_unit_tests", " not found">>

\* The targets of the handoff capabilities an agent registers.
HandoffTargets(agent) ==
    {Join(Functions(agent)[i].target) :
        i \in {j \in 1..Len(Functions(agent)) : Functions(agent)[j].kind = "handoff"}}

\* The keys of the dictionary create_coding_agents returns.
DefaultKeys == {create_coding_agents[i] : i \in 1..Len(create_coding_agents)}

\* Every handoff of the default agents targets a key of their dictionary,
\* and every agent but the Orchestrator hands off to it alone.
HandoffsStayInside ==
    /\ DefaultKeys = CodingAgentNames
    /\ \A agent \in DefaultKeys : HandoffTargets(agent) \subseteq DefaultKeys
    /\ \A agent \in DefaultKeys \ {"Orchestrator Agent"} :
          HandoffTargets(agent) = {"Orchestrator Agent"}

\* The call is one that runs the body of a handoff capability of agent.
HandoffRan(agent, function_name, arguments) ==
    /\ Ran(agent, function_name, arguments) # ""
    /\ Functions(agent)[Lookup(agent, function_name)].kind = "handoff"

\* The call the tool message at j answers: the one at the same distance in
\* the nearest assistant message before it.
CallAnswered(msgs, j) ==
    msgs[Max({k \in 1..(j - 1) : msgs[k].role = "assistant"
                                   /\ msgs[k].tool_calls # <<>>})]
        .tool_calls[j - Max({k \in 1..(j - 1) : msgs[k].role = "assistant"
                                                 /\ msgs[k].tool_calls # <<>>})]

\* Some tool result of the buffer matches the handoff pattern although no
\* handoff capability of a default agent produced it.
NonHandoffEmitted(msgs) ==
    \E j \in 1..Len(msgs) :
        /\ msgs[j].role = "tool"
        /\ HandoffSearch(msgs[j].content).found
        /\ \A agent \in DefaultKeys :
              ~HandoffRan(agent, CallAnswered(msgs, j).name,
                          CallAnswered(msgs, j).arguments)

\* The loop was started at an agent of the dictionary, as main.py and the
\* bridge start it.
StartedRegistered == starting_agent_name = "" \/ Registered(starting_agent_name)

C38_State ==
    /\ HandoffsStayInside
    /\ agents = create_coding_agents =>
          /\ (mode \in LoopModes /\ pc \notin {"", "start"} /\ StartedRegistered
              /\ ~NonHandoffEmitted(messages)) =>
                 Registered(current_agent_name) /\ stop # "not_found"
          /\ mode = "bridge" =>
                \A t \in 1..MaxWorkflows :
                    (wf[t].pc = "loop" /\ ~NonHandoffEmitted(wf[t].messages)) =>
                        Registered(wf[t].current_agent_name)

\* A workflow of the bridge aborts on an unknown cursor only after a result
\* that no handoff capability produced has matched.
C38_Step ==
    (mode = "bridge" /\ agents = create_coding_agents) =>
        \A t \in 1..MaxWorkflows :
            (wf[t].pc = "loop" /\ wf'[t].pc = "done"
             /\ wf'[t].ended = "not_found") => NonHandoffEmitted(wf[t].messages)

NoDotNoBreak(name) == \A i \in 1..Len(name) : name[i] \notin {DOT, NL}

\* The latest step was a turn of run that dispatched a function made, with
\* arguments that bind.
RanMade == k_out.done /\ "next" \in DOMAIN k_out /\ k_out.arguments = B_EMPTY

\* The names of the five default agents, in pieces.
DefaultTargets ==
    {<<"Orchestrator", " ", "Agent">>, <<"Coder", " ", "Agent">>,
     <<"Tester", " ", "Agent">>, <<"Database", " ", "Agent">>,
     <<"Research", " ", "Agent">>}

\* The next agent of a turn that dispatches create_handoff_function(name).
RoundTrip(name) ==
    Adopt(HandoffSearch(MadeResult(<<create_handoff_function(name)>>,
                                   create_handoff_function(name).name, B_EMPTY)),
          "Host")

\* C39: for every target name without '.' and without line break, a turn
\* of run that dispatches the capability create_handoff_function(name)
\* made returns exactly that name as the next agent, piece for piece, with
\* its spaces and its case; so it does for the names of the five default
\* agents.
C39_HandoffRoundTrip ==
    /\ (RanMade /\ NoDotNoBreak(k_target)) =>
          /\ k_out.match.found
          /\ k_out.match.target = k_target
          /\ k_out.next = Join(k_target)
    /\ {Join(name) : name \in DefaultTargets} = CodingAgentNames
    /\ \A name \in DefaultTargets : RoundTrip(name) = Join(name)

\* A name with a space at each end and a capital went through the round
\* trip.
C39_Witness ==
    /\ RanMade
    /\ k_target = <<" ", "Coder", " ">>
    /\ k_out.next = " Coder "

====
